---- MODULE Spec2Model ----
(***************************************************************************)
(* The client-side lesson runtime that build_html (src/app.py) embeds in   *)
(* every generated lesson: the slide model (slidesData, IMAGES), the       *)
(* rendered slide list S, navigation (go, R), the widget engines (QZ,      *)
(* MATCH, ORDER), the structural edit operations with undo, and the        *)
(* serializer downloadWithEdits.                                           *)
(*                                                                         *)
(* Indices are 0-based as in the script; At(s, i) reads s[i].  A handler   *)
(* that throws keeps the assignments it made before the throw, and the     *)
(* rest of the handler does not run.                                       *)
(***************************************************************************)
EXTENDS Integers, Sequences, FiniteSets, TLC

\* ------------------------------------------------------------------ bounds
MaxSlides == 3      \* duplicateSlide / addSlideAfter stop growing slidesData here
MaxEdits  == 2      \* number of pushUndo calls explored
MaxXP     == 2      \* number of rewards explored in one session
MaxLoads  == 2      \* number of times a document is opened (the first load included)
MaxBlocks == 3      \* blocks of the content slides whose rendering is explored
MaxPushes == 32     \* pushUndo calls of a session that fills the undo stack
MaxSpeaks == 2      \* narration fetches that speakSlide starts in one session
MaxTimers == 2      \* auto-advance timers pending at one time
MaxOps    == 3      \* pushUndo calls of a session on the slide sequence
MaxFiles  == 2      \* valid files uploaded in one batch request

\* ------------------------------------------------------- program constants
XP_REWARD == 20     \* addXP(20) in QZ, MATCH and ORDER
UNDO_MAX  == 30     \* const UNDO_MAX=30
MAX_WORKERS == 2    \* ThreadPoolExecutor(max_workers=2)
MAX_RETRIES == 2    \* attempt < 2

Null  == -1         \* JavaScript null for an index (selL, selIdx, sl)
NoObj == 0          \* JavaScript undefined in a slot of slidesData

VARIABLES
  heap,        \* object id -> slide record (the objects slidesData refers to)
  slidesData,  \* sequence of object ids (NoObj: an undefined slot)
  IMAGES,      \* Media Table: index -> data URI
  blobCache,   \* _blobCache: index -> the data URI its blob URL was made from
  S,           \* the rendered slide list (const S, built once at load)
  cur,         \* current slide index
  xp,          \* session XP
  dom,         \* what R() last wrote into #app
  widget,      \* the widget instance mounted by the last R()
  undoStack,   \* snapshots pushed by pushUndo
  editOpen,    \* the edit panel is in the document
  editor,      \* the form of the edit panel, the AI request in flight, the credential
  page,        \* the document that was opened
  loaded,      \* the script of the opened document ran
  dl,          \* the last document produced by downloadWithEdits
  hist,        \* history of the session (bookkeeping for the properties)
  EL_KEY,      \* the document was built with a narration key
  batch,       \* the server's /batch-convert request: its files, threads and response
  listenMode,  \* listen mode is on
  speaking,    \* speakSlide is at work
  autoTimer,   \* the auto-advance timer that stopAudio can clear (Null: none)
  currentAudio,\* the Audio that stopAudio can pause (Null: none)
  audioCache,  \* slide index -> the text its cached audio was made from
  fetches,     \* narration requests in flight
  audios,      \* the Audio objects that are playing
  timers,      \* the auto-advance timers that are pending
  badge,       \* the text of the listen badge in the document
  resets,      \* a 2 s timer that resets the badge after 'Error' is pending
  videoOnended,\* the slide index captured by the video's onended (Null: none)
  welcome      \* the welcome modal is in the document

narration == <<listenMode, speaking, autoTimer, currentAudio, audioCache,
               fetches, audios, timers, badge, resets, videoOnended>>

vars == <<heap, slidesData, IMAGES, blobCache, S, cur, xp, dom, widget,
          undoStack, editOpen, editor, page, loaded, dl, hist,
          EL_KEY, batch, narration, welcome>>

\* ----------------------------------------------------------------- helpers
At(s, i) == s[i + 1]

Min(a, b) == IF a < b THEN a ELSE b

Max(a, b) == IF a > b THEN a ELSE b

Has(d, k) == k \in DOMAIN d

\* d.k || dflt
FieldOr(d, k, dflt) == IF Has(d, k) THEN d[k] ELSE dflt

Range(s) == {s[i] : i \in DOMAIN s}

Perms(n) == {p \in [1..n -> 0..(n - 1)] : \A i, j \in 1..n : p[i] = p[j] => i = j}

Identity(n) == [i \in 1..n |-> i - 1]

\* ---------------------------------------------------------------- history
\* hist.inst: rewards added by the mounted widget instance; hist.awarded:
\* rewards added per entry of S; hist.edits: calls of pushUndo;
\* hist.call: the handler the last step called, with the state it
\* was called in; hist.loads: documents opened so far; hist.orig: the lesson
\* first opened; hist.clean: no edit was made since
\* hist.speaks: narration fetches started by speakSlide. Of a call:
\* moved: go() changed the current slide while the fetch that resolved was
\* pending; acted: the handler started an Audio; sched: it scheduled an
\* auto-advance; render: what go() had left when it called R(); form: the
\* fields of the edit panel when an AI handler was called; shown: the
\* handler left an error message the user sees
NoRender == [currentAudio |-> Null, speaking |-> FALSE, autoTimer |-> Null]

\* no edit panel
NoForm == [tp |-> "none", title |-> <<>>, narr |-> <<>>, els |-> <<>>, ci |-> Null, n |-> 0]

NoCall == [op |-> "none", arg |-> 0, ok |-> TRUE, pushed |-> FALSE, of |-> "none",
           pre |-> [slides |-> <<>>, cur |-> 0, undo |-> <<>>, images |-> <<>>],
           moved |-> FALSE, acted |-> FALSE, sched |-> FALSE, render |-> NoRender,
           undid |-> FALSE, stack |-> <<>>, form |-> NoForm, shown |-> FALSE]

Quiet(h) == [h EXCEPT !.call = NoCall]

\* the last step called handler op with argument arg
Did(op, arg) == [hist EXCEPT !.call = [NoCall EXCEPT !.op = op, !.arg = arg]]

\* -------------------------------------------------------------- slide data
\* A slide object is a record over a subset of the keys type, t, narration,
\* body; a text is a sequence of characters, where a character may also be
\* one of the strings the serializer searches for.
Q == "\""

BS == "\\"

SDATA == "/*SDATA*/"

EDATA == "/*EDATA*/"

SIMGS == "/*SIMGS*/"

EIMGS == "/*EIMGS*/"

DATA_EDIT == " data-edit=\"1\""

COPY_SUFFIX == " (copy)"

NumOptions == 4     \* a quiz body holds 4 options

\* the blocks of a content slide: a text block, an image block that refers
\* to an entry of the Media Table, and an image block without image_idx
Text(h) == [kind |-> "text", html |-> h]

Image(idx) == [kind |-> "image", image_idx |-> idx]

Unset == [kind |-> "image"]

ContentOf(t, narr, blocks) ==
  [type |-> "content", t |-> t, narration |-> narr, body |-> [blocks |-> blocks]]

Content(t, narr) == ContentOf(t, narr, <<Text(<<"x">>)>>)

\* a content slide that carries no narration key
Bare(t) == [type |-> "content", t |-> t, body |-> [blocks |-> <<Text(<<"x">>)>>]]

Quiz(t, ci) ==
  [type |-> "quiz", t |-> t, narration |-> <<>>,
   body |-> [options |-> NumOptions, correct |-> ci]]

Matching(t, n) ==
  [type |-> "matching", t |-> t, narration |-> <<>>, body |-> [pairs |-> n]]

Ordering(t, n) ==
  [type |-> "ordering", t |-> t, narration |-> <<>>, body |-> [items |-> n]]

\* the lessons a session of the widgets is opened on
PlayLessons ==
  { <<Content(<<"a">>, <<"n">>), Quiz(<<"q">>, 2), Content(<<"c">>, <<>>)>>,
    <<Matching(<<"m">>, 2), Bare(<<"b">>)>>,
    <<Matching(<<"m">>, 3)>>,
    <<Ordering(<<"o">>, 3), Quiz(<<"q">>, 0)>> }

\* the lessons an editing session is opened on
EditLessons ==
  { <<Bare(<<"b">>), Quiz(<<"q">>, 2)>>,
    <<Content(<<"a">>, <<"n">>)>> }

\* the lessons a document is downloaded from: texts with a quote, with a
\* boundary marker and with the editing-enabled attribute among them
SerLessons ==
  { <<Content(<<"a">>, <<"n", Q>>)>>,
    <<Bare(<<"b">>), Content(<<"a">>, <<"n", EDATA>>)>>,
    <<Content(<<SDATA, "a">>, <<>>)>>,
    <<Quiz(<<"q">>, 1), Content(<<"c", DATA_EDIT>>, <<"n">>)>> }

\* the lessons narrated: a quiz whose title does not say 'Quick Check'
\* before a content slide, and a slide with a video before a quiz whose
\* title does
NarrLessons ==
  { << Quiz(<<"q">>, 1), Content(<<"a">>, <<"n">>) >>,
    << ContentOf(<<"v">>, <<"n">>, <<Text(<<"x">>), Image(0)>>),
       Quiz(<<"Quick Check", "1">>, 0) >> }

NarrMedia == { <<"data:video/mp4;v">> }

\* the Media Tables the rendered lessons are opened with: an image and two
\* videos, and the same table with its second entry deleted
RenderMedia == { <<"data:image/png;x", "data:video/mp4;v", "data:video/webm;w">>,
                 <<"data:image/png;x", "", "data:video/webm;w">> }

\* the blocks of the rendered lessons: two texts, an image, two videos, an
\* image whose index is not in the table, an image without index
RenderBlocks ==
  { [kind |-> "text", html |-> <<"x">>], [kind |-> "text", html |-> <<"y">>],
    [kind |-> "image", image_idx |-> 0], [kind |-> "image", image_idx |-> 1],
    [kind |-> "image", image_idx |-> 2], [kind |-> "image", image_idx |-> 5],
    [kind |-> "image"] }

\* a content slide with every sequence of 1..MaxBlocks of these blocks,
\* followed by a slide to navigate to
RenderLessons ==
  { << [type |-> "content", t |-> <<"a">>, narration |-> <<>>, body |-> [blocks |-> bs]],
       [type |-> "content", t |-> <<"b">>, body |-> [blocks |-> <<>>]] >>
      : bs \in UNION { [1..n -> RenderBlocks] : n \in 1..MaxBlocks } }

\* ------------------------------------------------------------ Media Table
\* IMAGES is the sequence of its entries, index 0 first; an entry that was
\* deleted, or never set, is the empty string (falsy, as undefined is)
NoMedia == ""

PNG == "data:image/png;x"

MP4 == "data:video/mp4;v"

WEBM == "data:video/webm;w"

Media == { <<PNG>> }

\* d.startsWith('data:video/')
StartsWithVideo(uri) == uri \in {MP4, WEBM}

\* IMAGES[idx], for idx undefined or null (Null) as well
MediaAt(imgs, idx) == IF idx \in 0..(Len(imgs) - 1) THEN imgs[idx + 1] ELSE NoMedia

\* b.image_idx (Null when the block has none)
ImageIdx(b) == IF "image_idx" \in DOMAIN b THEN b.image_idx ELSE Null

\* const _blobCache={}
NoBlobs == [k \in {} |-> NoMedia]

\* mediaSrc(k) for every k of ks: a video that has no blob URL yet gets one,
\* made from the data the Media Table holds at that time
Cached(blobs, imgs, ks) ==
  [k \in (DOMAIN blobs) \cup {j \in ks : MediaAt(imgs, j) # NoMedia
                                          /\ StartsWithVideo(MediaAt(imgs, j))}
     |-> IF k \in DOMAIN blobs THEN blobs[k] ELSE MediaAt(imgs, k)]

\* the Media Table as mediaSrc serves it: a video that has a blob URL is
\* served from it, and plays the data the URL was made from
Served(imgs, blobs) ==
  [i \in 1..Len(imgs) |->
     IF StartsWithVideo(imgs[i]) /\ (i - 1) \in DOMAIN blobs THEN blobs[i - 1] ELSE imgs[i]]

\* if(_blobCache[k]){URL.revokeObjectURL(_blobCache[k]);delete _blobCache[k]}
Revoked(blobs, k) == [j \in (DOMAIN blobs) \ {k} |-> blobs[j]]

\* the indices the image blocks of the slide d carry
ImageIdxs(d) ==
  IF Has(d, "body") /\ Has(d.body, "blocks")
    THEN {ImageIdx(d.body.blocks[i]) :
            i \in {j \in DOMAIN d.body.blocks :
                     FieldOr(d.body.blocks[j], "kind", "") = "image"}}
    ELSE {}

\* function mediaSrc(idx), on the Media Table as served
mediaSrc(imgs, idx) == MediaAt(imgs, idx)

\* function isVideo(idx)
isVideo(imgs, idx) == MediaAt(imgs, idx) # NoMedia /\ StartsWithVideo(MediaAt(imgs, idx))

\* -------------------------------------------------------- content slides
\* a fragment of markup: its element and the text or source it carries
Fragment(tag, of) == [tag |-> tag, of |-> of]

Empty == Fragment("", <<>>)

\* a renderer that does not look the image up in the Media Table
renderBlock_Unchecked(imgs, b) ==
  LET k == IF "kind" \in DOMAIN b THEN b.kind ELSE "" IN
  CASE k = "text"  -> Fragment("div", IF "html" \in DOMAIN b THEN b.html ELSE <<>>)
    [] k = "image" ->
         IF isVideo(imgs, ImageIdx(b))
           THEN Fragment("video", <<mediaSrc(imgs, ImageIdx(b))>>)
           ELSE Fragment("img", <<mediaSrc(imgs, ImageIdx(b))>>)
    [] OTHER       -> Empty

\* function renderBlock(b), for the kinds of block the lessons hold
renderBlock(imgs, b) ==
  LET k == IF "kind" \in DOMAIN b THEN b.kind ELSE "" IN
  CASE k = "text"  -> Fragment("div", IF "html" \in DOMAIN b THEN b.html ELSE <<>>)
    [] k = "image" ->
         IF MediaAt(imgs, ImageIdx(b)) # NoMedia
           THEN IF isVideo(imgs, ImageIdx(b))
                  THEN Fragment("video", <<mediaSrc(imgs, ImageIdx(b))>>)
                  ELSE Fragment("img", <<mediaSrc(imgs, ImageIdx(b))>>)
           ELSE Empty
    [] OTHER       -> Empty

\* a body without blocks (the slide object became a quiz, a matching or an
\* ordering slide): every array among its values is rendered item by item,
\* a string as a text fragment and a pair object as nothing
ObjectValues(body) ==
  (IF "options" \in DOMAIN body
     THEN [i \in 1..body.options |-> Fragment("div", <<"option">>)] ELSE <<>>)
  \o (IF "pairs" \in DOMAIN body THEN [i \in 1..body.pairs |-> Empty] ELSE <<>>)
  \o (IF "items" \in DOMAIN body
        THEN [i \in 1..body.items |-> Fragment("div", <<"item">>)] ELSE <<>>)

\* a renderer that keeps the blocks in their source order
buildContentSlide_SourceOrder(d, imgs) ==
  IF "blocks" \notin DOMAIN d.body THEN ObjectValues(d.body)
  ELSE [i \in 1..Len(d.body.blocks) |-> renderBlock(imgs, d.body.blocks[i])]

\* function buildContentSlide(d): the fragments it concatenates
buildContentSlide(d, imgs) ==
  IF "blocks" \notin DOMAIN d.body THEN ObjectValues(d.body)
  ELSE
    LET blocks == d.body.blocks
        IsVideoBlock(b) ==
          /\ "kind" \in DOMAIN b /\ b.kind = "image"
          /\ ImageIdx(b) # Null /\ isVideo(imgs, ImageIdx(b))
        IsNonVideo(b) == ~IsVideoBlock(b)
        nonVideo    == SelectSeq(blocks, IsNonVideo)
        videoBlocks == SelectSeq(blocks, IsVideoBlock)
    IN [i \in 1..Len(nonVideo) |-> renderBlock(imgs, nonVideo[i])]
       \o [i \in 1..Len(videoBlocks) |-> renderBlock(imgs, videoBlocks[i])]

\* ------------------------------------------------------- rendered list S
\* one entry of S: display fields, the slide object its closures captured
\* (d) and the values the activation callback captured at load
SEntry(d, oid) ==
  LET tp == FieldOr(d, "type", "content") IN
  [t    |-> FieldOr(d, "t", <<>>),
   narr |-> FieldOr(d, "narration", <<>>),
   tp   |-> tp,
   r    |-> IF tp \in {"quiz", "matching", "ordering"} THEN "mount" ELSE "content",
   d    |-> oid,
   ci   |-> IF tp = "quiz" THEN d.body.correct ELSE Null,
   n    |-> CASE tp = "quiz"     -> d.body.options
              [] tp = "matching" -> d.body.pairs
              [] tp = "ordering" -> d.body.items
              [] OTHER           -> 0]

BuildS(hp, sd) == [i \in 1..Len(sd) |-> SEntry(hp[sd[i]], sd[i])]

\* ---------------------------------------------------------------- widgets
NoWidget ==
  [kind |-> "none", n |-> 0, ci |-> Null, sl |-> Null,
   selL |-> Null, matched |-> <<>>, wrongPair |-> <<>>, flash |-> FALSE,
   shuffled |-> <<>>, current |-> <<>>, selIdx |-> Null, done |-> FALSE]

\* QZ(id,q,o,ci,ex,withXP): let sl=null
QZ(s) == {[NoWidget EXCEPT !.kind = "quiz", !.n = s.n, !.ci = s.ci]}

\* MATCH(id,pairs): shuffled is any order of the right items
MATCH(s) ==
  {[NoWidget EXCEPT !.kind = "matching", !.n = s.n,
                    !.matched = [i \in 1..s.n |-> Null], !.shuffled = p]
     : p \in Perms(s.n)}

\* ORDER(id,items): current is any order of the positions
ORDER(s) ==
  {[NoWidget EXCEPT !.kind = "ordering", !.n = s.n, !.current = p]
     : p \in Perms(s.n)}

\* s.r() then s.i(): the activation callback of an entry of S finds its
\* mount point only if s.r rendered it (if(!el)return)
Activate(s) ==
  CASE s.r = "mount" /\ s.tp = "quiz"     -> QZ(s)
    [] s.r = "mount" /\ s.tp = "matching" -> MATCH(s)
    [] s.r = "mount" /\ s.tp = "ordering" -> ORDER(s)
    [] OTHER                              -> {NoWidget}

AllMatched(w) == \A i \in 1..w.n : w.matched[i] # Null

\* ----------------------------------------------------------------- render
\* R(): throws on S[cur] undefined, else writes #app (the title of the
\* slide and the titles of all slides in the drawer) and mounts the widget
Titles(Sv) == [i \in 1..Len(Sv) |-> Sv[i].t]

\* s.r(): the blocks of the slide object the entry captured, or the mount
\* point of a widget
Body(s, hp, imgs) ==
  IF s.r = "content" THEN buildContentSlide(hp[s.d], imgs)
                     ELSE <<Fragment("mount", <<>>)>>

\* R() reads the slide objects and the Media Table as the handler that
\* called it left them; blobs is the blob cache it finds
RFrom(blobs, c, Sv, h) ==
  IF c \in 0..(Len(Sv) - 1)
    THEN LET s  == At(Sv, c)
             b1 == IF s.r = "content" THEN Cached(blobs, IMAGES', ImageIdxs(heap'[s.d]))
                                      ELSE blobs
         IN /\ blobCache' = b1
            /\ dom' = [shown |-> c, h1 |-> s.t, nav |-> Titles(Sv),
                       cn |-> Body(s, heap', Served(IMAGES', b1))]
            /\ \E w \in Activate(s) : widget' = w
            /\ hist' = [h EXCEPT !.inst = 0]
    ELSE /\ UNCHANGED <<dom, widget>>
         /\ blobCache' = blobs
         /\ hist' = h

R(c, Sv, h) == RFrom(blobCache, c, Sv, h)

\* -------------------------------------------------------------- narration
\* the narration state as one value, for the handlers that call one another
Narr ==
  [listenMode |-> listenMode, speaking |-> speaking, autoTimer |-> autoTimer,
   currentAudio |-> currentAudio, audioCache |-> audioCache, fetches |-> fetches,
   audios |-> audios, timers |-> timers, badge |-> badge, resets |-> resets,
   videoOnended |-> videoOnended]

NarrIs(n) ==
  /\ listenMode = n.listenMode /\ speaking = n.speaking
  /\ autoTimer = n.autoTimer /\ currentAudio = n.currentAudio
  /\ audioCache = n.audioCache /\ fetches = n.fetches
  /\ audios = n.audios /\ timers = n.timers
  /\ badge = n.badge /\ resets = n.resets
  /\ videoOnended = n.videoOnended

SetNarr(n) ==
  /\ listenMode' = n.listenMode /\ speaking' = n.speaking
  /\ autoTimer' = n.autoTimer /\ currentAudio' = n.currentAudio
  /\ audioCache' = n.audioCache /\ fetches' = n.fetches
  /\ audios' = n.audios /\ timers' = n.timers
  /\ badge' = n.badge /\ resets' = n.resets
  /\ videoOnended' = n.videoOnended

\* let listenMode=false,speaking=false,autoTimer=null; currentAudio=null,
\* audioCache={}; the pre-cache loop of the load fetches the first 3 slides
VIDEO_NOTE == "Now, let's watch the video to see this in action."

PreCacheAhead == 3

\* /video|watch|demo|action|look at/i.test(text)
MentionsVideo(text) == \E i \in DOMAIN text : text[i] \in {"video", VIDEO_NOTE}

\* function slideHasVideo(idx)
slideHasVideo(hp, sd, imgs, idx) ==
  /\ idx < Len(sd) /\ sd[idx + 1] # 0
  /\ "body" \in DOMAIN hp[sd[idx + 1]]
  /\ "blocks" \in DOMAIN hp[sd[idx + 1]].body
  /\ \E i \in DOMAIN hp[sd[idx + 1]].body.blocks :
       LET b == hp[sd[idx + 1]].body.blocks[i] IN
       /\ "kind" \in DOMAIN b /\ b.kind = "image"
       /\ ImageIdx(b) # Null /\ isVideo(imgs, ImageIdx(b))

\* function slideText(s), s being entry idx of S
slideText(Sv, hp, sd, imgs, idx) ==
  LET s    == Sv[idx + 1]
      text == IF s.narr # <<>> THEN s.narr ELSE s.t \o <<". ">>
  IN IF slideHasVideo(hp, sd, imgs, idx) /\ ~MentionsVideo(text)
       THEN text \o <<VIDEO_NOTE>> ELSE text

\* a request of elFetch in flight: speak says that speakSlide awaits it
\* (live: the badge element it captured is still in the document); the
\* requests of the pre-cache for one index and text are not told apart
Prefetch(idx, text) ==
  [id |-> 0, idx |-> idx, text |-> text, speak |-> FALSE, moved |-> FALSE, live |-> FALSE]

FreeId(used) == CHOOSE k \in 1..(Cardinality(used) + 1) : k \notin used

\* audioCache[idx]=url
CachePut(cache, idx, text) ==
  [i \in (DOMAIN cache) \cup {idx} |-> IF i = idx THEN text ELSE cache[i]]

\* delete audioCache[idx]
CacheDelete(cache, idx) == [i \in (DOMAIN cache) \ {idx} |-> cache[i]]

NoCache == [i \in {} |-> <<>>]

NarrInit(fs) ==
  [listenMode |-> FALSE, speaking |-> FALSE, autoTimer |-> Null, currentAudio |-> Null,
   audioCache |-> NoCache, fetches |-> fs, audios |-> {}, timers |-> {},
   badge |-> "Listen", resets |-> FALSE, videoOnended |-> Null]

\* function stopAudio()
stopAudio(n) ==
  [n EXCEPT !.audios = {a \in @ : a.id # n.currentAudio},
            !.currentAudio = Null,
            !.speaking = FALSE,
            !.timers = @ \ {n.autoTimer},
            !.autoTimer = Null]

\* what R() does to the narration: the listen badge and the video are new
\* elements, so that the badge a pending speakSlide captured and the video
\* that carries an onended handler are no longer in the document
Rendered(n) ==
  [n EXCEPT !.badge = IF n.listenMode THEN "Listening" ELSE "Listen",
            !.resets = FALSE,
            !.videoOnended = Null,
            !.fetches = {[f EXCEPT !.live = FALSE] : f \in @}]

\* function preCache(from)
preCache(n, from, Sv, hp, sd, imgs) ==
  [n EXCEPT !.fetches = @ \cup
     {Prefetch(idx, slideText(Sv, hp, sd, imgs, idx))
        : idx \in {i \in (from + 1)..(from + PreCacheAhead) :
                     i < Len(Sv) /\ i \notin DOMAIN n.audioCache}}]

\* the end of speakSlide, from setTxt('Listening') on: the Audio plays (and
\* the pre-cache starts), or play() is rejected, or the Audio fails to load
\* (onerror, and play() is rejected)
StartAudio(n, c, live, Sv, hp, sd, imgs) ==
  LET id == FreeId({a.id : a \in n.audios} \cup {n.currentAudio})
      n1 == [n EXCEPT !.badge = IF live THEN "Listening" ELSE @,
                      !.currentAudio = id]
  IN { preCache([n1 EXCEPT !.audios = @ \cup {[id |-> id, idx |-> c]}],
                c, Sv, hp, sd, imgs),
       [n1 EXCEPT !.speaking = FALSE],
       [n1 EXCEPT !.speaking = FALSE, !.currentAudio = Null,
                  !.badge = IF live THEN "Error" ELSE @] }

\* async function speakSlide(), up to its first await: the states it may
\* leave. S[myCur] undefined makes slideText throw after stopAudio. No
\* state is left when the session has started MaxSpeaks fetches already.
speakSlide(n0, c, Sv, hp, sd, imgs) ==
  LET n == stopAudio(n0) IN
  IF ~n.listenMode \/ ~EL_KEY \/ c \notin 0..(Len(Sv) - 1) THEN {n}
  ELSE IF c \in DOMAIN n.audioCache
    THEN StartAudio([n EXCEPT !.speaking = TRUE], c, TRUE, Sv, hp, sd, imgs)
  ELSE IF hist.speaks >= MaxSpeaks THEN {}
  ELSE {[n EXCEPT !.speaking = TRUE, !.badge = "Loading...",
                  !.fetches = @ \cup
                    {[id |-> FreeId({f.id : f \in n.fetches}), idx |-> c,
                      text |-> slideText(Sv, hp, sd, imgs, c),
                      speak |-> TRUE, moved |-> FALSE, live |-> TRUE]}]}

\* speakSlide started a fetch
Awaits(n0, n) ==
  Cardinality({f \in n.fetches : f.speak}) > Cardinality({f \in n0.fetches : f.speak})

\* ------------------------------------------------------------- navigation
\* a clamp that lets the index reach n
ClampPastEnd(i, n) == Max(0, Min(n, i))

\* Math.max(0,Math.min(S.length-1,i))
Clamp(i, n) == Max(0, Min(n - 1, i))

\* go(i) in narration state n0: stopAudio();R();if(listenMode)speakSlide()
GoFrom(n0, i) ==
  /\ loaded
  /\ cur' = Clamp(i, Len(S))
  /\ UNCHANGED <<heap, slidesData, IMAGES, S, xp, undoStack, editOpen, editor,
                 page, loaded, dl, EL_KEY, batch, welcome>>
  /\ LET n1 == stopAudio(n0)
         n2 == [Rendered(n1) EXCEPT
                  !.fetches = {[f EXCEPT !.moved = @ \/ (f.speak /\ cur' # cur)]
                                 : f \in @}]
     IN \E n \in (IF n2.listenMode THEN speakSlide(n2, cur', S, heap, slidesData, IMAGES)
                                    ELSE {n2}) :
          /\ SetNarr(n)
          /\ R(cur', S,
               [Did("go", i) EXCEPT
                  !.speaks = @ + (IF Awaits(n2, n) THEN 1 ELSE 0),
                  !.call.acted = n.currentAudio # Null,
                  !.call.render = [currentAudio |-> n1.currentAudio,
                                   speaking |-> n1.speaking,
                                   autoTimer |-> n1.autoTimer]])

\* function go(i)
go(i) == GoFrom(Narr, i)

\* ------------------------------------------------------- narration events
NarrFrame ==
  UNCHANGED <<heap, slidesData, IMAGES, blobCache, S, cur, xp, dom, widget, undoStack,
              editOpen, editor, page, loaded, dl, EL_KEY, batch>>

Spoke(op, n0, n) ==
  [Did(op, 0) EXCEPT !.speaks = @ + (IF Awaits(n0, n) THEN 1 ELSE 0),
                     !.call.acted = n.currentAudio # Null]

\* function toggleListen(): the badge text it writes replaces the
\* 'Loading...' of speakSlide, not what the Audio wrote later
toggleListen ==
  /\ loaded
  /\ LET n0 == [Narr EXCEPT !.listenMode = ~listenMode] IN
     \E n \in (IF n0.listenMode THEN speakSlide(n0, cur, S, heap, slidesData, IMAGES)
                                 ELSE {stopAudio(n0)}) :
       /\ SetNarr([n EXCEPT !.badge = IF @ = "Error" THEN @
                                      ELSE IF n0.listenMode THEN "Listening" ELSE "Listen"])
       /\ hist' = Spoke("toggleListen", n0, n)
  /\ NarrFrame /\ UNCHANGED welcome

\* function startListenMode(), the Listen Along button of the welcome
\* modal (there if the document has a key)
startListenMode ==
  /\ loaded /\ welcome /\ EL_KEY
  /\ LET n0 == [Narr EXCEPT !.listenMode = TRUE] IN
     \E n \in speakSlide(n0, cur, S, heap, slidesData, IMAGES) :
       /\ SetNarr(n)
       /\ hist' = Spoke("startListenMode", n0, n)
  /\ welcome' = FALSE
  /\ NarrFrame

\* function closeWelcome(), the Read at My Pace button
closeWelcome ==
  /\ loaded /\ welcome
  /\ welcome' = FALSE
  /\ hist' = Did("closeWelcome", 0)
  /\ NarrFrame /\ UNCHANGED narration

\* autoTimer=setTimeout(()=>go(cur+1),800)
Schedule(n) ==
  LET id == FreeId(n.timers \cup {n.autoTimer}) IN
  [n EXCEPT !.timers = @ \cup {id}, !.autoTimer = id]

CanSchedule == Cardinality(timers) < MaxTimers

\* a request of elFetch ends (ok: with audio): elFetch stores the audio,
\* then the speakSlide that awaits it goes on from its stale() test
FetchDone(f, ok) ==
  /\ loaded /\ f \in fetches
  /\ LET n0 == [Narr EXCEPT !.fetches = @ \ {f},
                            !.audioCache = IF ok THEN CachePut(@, f.idx, f.text) ELSE @]
         stale == ~listenMode \/ cur # f.idx
     IN \E n \in (IF ~f.speak THEN {n0}
                  ELSE IF stale THEN {[n0 EXCEPT !.speaking = FALSE]}
                  ELSE IF ~ok
                    THEN {[n0 EXCEPT !.speaking = FALSE,
                                     !.badge = IF f.live THEN "Error" ELSE @,
                                     !.resets = @ \/ f.live]}
                  ELSE StartAudio(n0, f.idx, f.live, S, heap, slidesData, IMAGES)) :
          /\ SetNarr(n)
          /\ hist' = [Did("FetchDone", f.idx) EXCEPT
                        !.call.ok = ok,
                        !.call.of = IF f.speak THEN "speakSlide" ELSE "preCache",
                        !.call.moved = f.moved,
                        !.call.acted = f.speak /\ ~stale /\ ok]
  /\ NarrFrame /\ UNCHANGED welcome

\* s.t.startsWith('Quick Check')||s.t==='Build a Prompt'
Interactive(s) == (s.t # <<>> /\ Head(s.t) = "Quick Check") \/ s.t = <<"Build a Prompt">>

\* document.querySelector('.slide-video')
HasVideo(d) == \E i \in DOMAIN d.cn : d.cn[i].tag = "video"

\* audio.onended of the Audio a
AudioEnded(a) ==
  /\ loaded /\ a \in audios
  /\ LET n0    == [Narr EXCEPT !.audios = @ \ {a}, !.speaking = FALSE,
                               !.currentAudio = Null]
         stale == ~listenMode \/ cur # a.idx
         sched == ~stale /\ ~HasVideo(dom)
                  /\ ~Interactive(At(S, a.idx)) /\ cur < Len(S) - 1
     IN /\ sched => CanSchedule
        /\ SetNarr(IF stale THEN n0
                   ELSE IF HasVideo(dom) THEN [n0 EXCEPT !.videoOnended = a.idx]
                   ELSE IF sched THEN Schedule(n0) ELSE n0)
        /\ hist' = [Did("AudioEnded", a.idx) EXCEPT !.call.sched = sched]
  /\ NarrFrame /\ UNCHANGED welcome

\* a test that leaves the last slide out of account
VideoAdvances_OnLast(myCur) == cur = myCur /\ listenMode

\* cur===myCur&&listenMode&&cur<S.length-1
VideoAdvances(myCur) == cur = myCur /\ listenMode /\ cur < Len(S) - 1

\* hasVideo.onended: the video that audio.onended started has played to
\* its end; the timer it sets fires before the video can end once more
VideoEnded ==
  /\ loaded /\ videoOnended # Null
  /\ LET sched == VideoAdvances(videoOnended) IN
     /\ sched => CanSchedule
     /\ SetNarr(IF sched THEN [Schedule(Narr) EXCEPT !.videoOnended = Null] ELSE Narr)
     /\ hist' = [Did("VideoEnded", videoOnended) EXCEPT !.call.sched = sched]
  /\ NarrFrame /\ UNCHANGED welcome

\* an auto-advance timer fires: go(cur+1)
TimerFires(t) ==
  /\ t \in timers
  /\ GoFrom([Narr EXCEPT !.timers = @ \ {t}], cur + 1)

\* the 2 s timer after 'Error': setTxt(listenMode?'Listening':'Listen');
\* more such timers may remain
BadgeReset ==
  /\ loaded /\ resets
  /\ badge' = IF listenMode THEN "Listening" ELSE "Listen"
  /\ resets' \in BOOLEAN
  /\ hist' = Did("BadgeReset", 0)
  /\ UNCHANGED <<listenMode, speaking, autoTimer, currentAudio, audioCache,
                 fetches, audios, timers, videoOnended, welcome>>
  /\ NarrFrame

\* --------------------------------------------------------------------- XP
CanAward == xp < MaxXP * XP_REWARD

\* addXP(20), called by the widget mounted for slide dom.shown
addXP(h) ==
  /\ xp' = xp + XP_REWARD
  /\ hist' = [h EXCEPT !.inst = @ + 1, !.awarded[dom.shown + 1] = @ + 1]

SessionFrame ==
  UNCHANGED <<heap, slidesData, IMAGES, blobCache, S, cur, dom, undoStack,
              editOpen, editor, page, loaded, dl, EL_KEY, batch, narration, welcome>>

\* a quiz that does not lock after the first selection
QZ_q_Unlocked(i) ==
  /\ loaded /\ widget.kind = "quiz"
  /\ widget' = [widget EXCEPT !.sl = i]
  /\ IF i = widget.ci
       THEN CanAward /\ addXP(Did("QZ_q", i))
       ELSE UNCHANGED xp /\ hist' = Did("QZ_q", i)
  /\ SessionFrame

\* window['_q'+id](i)
QZ_q(i) ==
  /\ loaded /\ widget.kind = "quiz"
  /\ IF widget.sl = Null
       THEN /\ widget' = [widget EXCEPT !.sl = i]
            /\ IF i = widget.ci
                 THEN CanAward /\ addXP(Did("QZ_q", i))
                 ELSE UNCHANGED xp /\ hist' = Did("QZ_q", i)
       ELSE UNCHANGED <<widget, xp>> /\ hist' = Did("QZ_q", i)
  /\ SessionFrame

\* window['_ml'+id](li)
MATCH_ml(li) ==
  /\ loaded /\ widget.kind = "matching"
  /\ IF At(widget.matched, li) # Null
       THEN UNCHANGED widget
       ELSE widget' = [widget EXCEPT !.selL = li]
  /\ UNCHANGED xp /\ hist' = Did("MATCH_ml", li)
  /\ SessionFrame

\* a wrong pair that keeps the left item selected
Refused_KeepsSelection(w, ri) ==
  [w EXCEPT !.wrongPair = <<w.selL, ri>>, !.flash = TRUE]

\* the else branch of _mr: wrongPair=[selL,ri], the 600 ms timer is set,
\* and the closing selL=null
Refused(w, ri) ==
  [w EXCEPT !.wrongPair = <<w.selL, ri>>, !.flash = TRUE, !.selL = Null]

\* a matching widget that rewards every correct match
MATCH_mr_EachMatch(ri) ==
  /\ loaded /\ widget.kind = "matching"
  /\ IF widget.selL = Null \/ ri \in Range(widget.matched)
       THEN UNCHANGED <<widget, xp>> /\ hist' = Did("MATCH_mr", ri)
       ELSE IF widget.selL = At(widget.shuffled, ri)
         THEN /\ widget' = [widget EXCEPT !.matched[widget.selL + 1] = ri,
                                          !.selL = Null, !.wrongPair = <<>>]
              /\ CanAward /\ addXP(Did("MATCH_mr", ri))
         ELSE /\ widget' = [widget EXCEPT !.wrongPair = <<widget.selL, ri>>,
                                          !.flash = TRUE, !.selL = Null]
              /\ UNCHANGED xp /\ hist' = Did("MATCH_mr", ri)
  /\ SessionFrame

\* window['_mr'+id](ri); left[li].idx = li and shuffled[ri].idx = shuffled[ri]
MATCH_mr(ri) ==
  /\ loaded /\ widget.kind = "matching"
  /\ IF widget.selL = Null \/ ri \in Range(widget.matched)
       THEN UNCHANGED <<widget, xp>> /\ hist' = Did("MATCH_mr", ri)
       ELSE IF widget.selL = At(widget.shuffled, ri)
         THEN LET w == [widget EXCEPT !.matched[widget.selL + 1] = ri,
                                      !.selL = Null, !.wrongPair = <<>>] IN
              /\ widget' = w
              /\ IF AllMatched(w)
                   THEN CanAward /\ addXP(Did("MATCH_mr", ri))
                   ELSE UNCHANGED xp /\ hist' = Did("MATCH_mr", ri)
         ELSE /\ widget' = Refused(widget, ri)
              /\ UNCHANGED xp /\ hist' = Did("MATCH_mr", ri)
  /\ SessionFrame

\* a timer that also drops the left selection
MATCH_flash_ClearsSelection ==
  /\ loaded /\ widget.kind = "matching" /\ widget.flash
  /\ \E more \in BOOLEAN :
       widget' = [widget EXCEPT !.wrongPair = <<>>, !.selL = Null, !.flash = more]
  /\ UNCHANGED xp /\ hist' = Did("MATCH_flash", 0)
  /\ SessionFrame

\* the 600 ms timer of a wrong pair: wrongPair=null; flash says that at
\* least one such timer is pending, more may remain after this one
MATCH_flash ==
  /\ loaded /\ widget.kind = "matching" /\ widget.flash
  /\ \E more \in BOOLEAN :
       widget' = [widget EXCEPT !.wrongPair = <<>>, !.flash = more]
  /\ UNCHANGED xp /\ hist' = Did("MATCH_flash", 0)
  /\ SessionFrame

\* an exchange that loses the clicked entry
Swap_Overwrite(s, i, j) == [s EXCEPT ![j + 1] = At(s, i)]

\* const tmp=current[selIdx];current[selIdx]=current[pos];current[pos]=tmp
Swap(s, i, j) == [s EXCEPT ![i + 1] = At(s, j), ![j + 1] = At(s, i)]

\* a position click that does not look at done
ORDER_ord_NotLocked(pos) ==
  /\ loaded /\ widget.kind = "ordering"
  /\ IF widget.selIdx = Null
       THEN widget' = [widget EXCEPT !.selIdx = pos]
       ELSE widget' = [widget EXCEPT !.current = Swap(@, widget.selIdx, pos),
                                     !.selIdx = Null]
  /\ UNCHANGED xp /\ hist' = Did("ORDER_ord", pos)
  /\ SessionFrame

\* window['_ord'+id](pos)
ORDER_ord(pos) ==
  /\ loaded /\ widget.kind = "ordering"
  /\ IF widget.done
       THEN UNCHANGED widget
       ELSE IF widget.selIdx = Null
         THEN widget' = [widget EXCEPT !.selIdx = pos]
         ELSE widget' = [widget EXCEPT !.current = Swap(@, widget.selIdx, pos),
                                       !.selIdx = Null]
  /\ UNCHANGED xp /\ hist' = Did("ORDER_ord", pos)
  /\ SessionFrame

\* a check that accepts one item in its place
IsCorrectSomewhere(current) == \E i \in 1..Len(current) : current[i] = i - 1

\* current.every((c,i)=>c===i)
IsCorrect(current) == \A i \in 1..Len(current) : current[i] = i - 1

\* window['_ordChk'+id](); r() renders the Check Order button that calls
\* it only while !done
ORDER_ordChk ==
  /\ loaded /\ widget.kind = "ordering" /\ ~widget.done
  /\ IF IsCorrect(widget.current)
       THEN /\ widget' = [widget EXCEPT !.done = TRUE]
            /\ CanAward /\ addXP(Did("ORDER_ordChk", 0))
       ELSE UNCHANGED <<widget, xp>> /\ hist' = Did("ORDER_ordChk", 0)
  /\ SessionFrame

\* ------------------------------------------------------------ edit / undo
NoSlide == [undefined |-> TRUE]     \* what JSON gives for an undefined slot

\* the slide objects by value, in the order of the array sd
Values(hp, sd) ==
  [i \in 1..Len(sd) |-> IF sd[i] = NoObj THEN NoSlide ELSE hp[sd[i]]]

\* the snapshot pushUndo takes: deep copies of slidesData and IMAGES and
\* the display fields of S
Snapshot ==
  [slidesData |-> Values(heap, slidesData),
   images     |-> IMAGES,
   sArr       |-> [i \in 1..Len(S) |-> [t |-> S[i].t, narr |-> S[i].narr]]]

\* a pushUndo that never shifts
pushUndo_NoShift(stack, snap) == Append(stack, snap)

\* pushUndo(): push, and shift the oldest out above UNDO_MAX
pushUndo(stack, snap) ==
  LET pushed == Append(stack, snap) IN
  IF Len(pushed) > UNDO_MAX THEN Tail(pushed) ELSE pushed

\* Object.assign(target, src)
ObjectAssign(target, src) ==
  [k \in (DOMAIN target) \cup (DOMAIN src) |->
     IF k \in DOMAIN src THEN src[k] ELSE target[k]]

\* sd[i] for any i >= 0 (undefined past the end)
Slot(sd, i) == IF i < Len(sd) THEN At(sd, i) ELSE NoObj

\* sd[i]=v for 0 <= i <= sd.length
SetSlot(sd, i, v) == IF i < Len(sd) THEN [sd EXCEPT ![i + 1] = v] ELSE Append(sd, v)

\* sd.splice(pos,0,x)
SpliceIn(sd, pos, x) ==
  LET at == Min(pos, Len(sd)) IN
  SubSeq(sd, 1, at) \o <<x>> \o SubSeq(sd, at + 1, Len(sd))

\* sd.splice(pos,1)
SpliceOut(sd, pos) ==
  IF pos < Len(sd) THEN SubSeq(sd, 1, pos) \o SubSeq(sd, pos + 2, Len(sd)) ELSE sd

\* the state an edit handler is called in, for hist.call
Pre ==
  [slides |-> Values(heap, slidesData), cur |-> cur, undo |-> undoStack, images |-> IMAGES]

Called(op, arg, ok) ==
  [hist EXCEPT !.call = [NoCall EXCEPT !.op = op, !.arg = arg, !.ok = ok, !.pre = Pre]]

Pushed(h) == [h EXCEPT !.edits = @ + 1, !.call.pushed = TRUE, !.clean = FALSE]

CanEdit == hist.edits < hist.cap

\* ---------------------------------------------------------- the edit form
\* a block of the form: the textarea of a text block (data-bi, data-field
\* html), the media slot of an image block with the index its onchange
\* handler carries, or nothing
NoEl == [kind |-> "none"]

FormEl(b) ==
  IF "kind" \notin DOMAIN b \/ b.kind = "text"
    THEN [kind |-> "text", val |-> FieldOr(b, "html", <<>>)]
  ELSE IF b.kind = "image" THEN [kind |-> "image", idx |-> ImageIdx(b)]
  ELSE NoEl

\* the panel openEdit() builds for the slide d
FormOf(d) ==
  LET tp == FieldOr(d, "type", "content") IN
  [tp    |-> tp,
   title |-> FieldOr(d, "t", <<>>),
   narr  |-> FieldOr(d, "narration", <<>>),
   els   |-> IF tp = "content" /\ "body" \in DOMAIN d /\ "blocks" \in DOMAIN d.body
               THEN [i \in 1..Len(d.body.blocks) |-> FormEl(d.body.blocks[i])]
               ELSE <<>>,
   ci    |-> IF tp = "quiz" THEN d.body.correct ELSE Null,
   n     |-> IF tp = "quiz" THEN d.body.options ELSE 0]

\* no request of aiSuggest (ai) or regenNarration (regen) in flight; a
\* request holds the slide object d it was made for, and live says that the
\* panel it was made from is still in the document
NoAI == [d |-> NoObj, live |-> FALSE]

\* the editor of a new session: no panel, no request; apiKey says that
\* localStorage holds a credential
NoEditor(apiKey) ==
  [form |-> NoForm, ai |-> NoAI, regen |-> NoAI, apiKey |-> apiKey, err |-> FALSE]

\* the panel is removed
Closed ==
  [editor EXCEPT !.form = NoForm, !.err = FALSE, !.ai.live = FALSE, !.regen.live = FALSE]

\* the previews of the panel call mediaSrc for the image blocks of a
\* content slide
Previewed(blobs, d, imgs) ==
  IF FieldOr(d, "type", "content") = "content" THEN Cached(blobs, imgs, ImageIdxs(d))
                                               ELSE blobs

\* openEdit(): d=slidesData[cur]; d.type throws on an undefined slot
openEdit ==
  /\ loaded /\ ~editOpen
  /\ Slot(slidesData, cur) # NoObj
  /\ editOpen' = TRUE
  /\ editor' = [editor EXCEPT !.form = FormOf(heap[Slot(slidesData, cur)]), !.err = FALSE]
  /\ blobCache' = Previewed(blobCache, heap[Slot(slidesData, cur)], IMAGES)
  /\ hist' = Quiet(hist)
  /\ UNCHANGED <<heap, slidesData, IMAGES, S, cur, xp, dom, widget,
                 undoStack, page, loaded, dl, EL_KEY, batch, narration, welcome>>

\* closeEdit() from the overlay; the 200 ms of the closing animation are
\* not modelled, the panel is gone at once
closeEdit ==
  /\ loaded /\ editOpen
  /\ editOpen' = FALSE /\ editor' = Closed
  /\ hist' = Quiet(hist)
  /\ UNCHANGED <<heap, slidesData, IMAGES, blobCache, S, cur, xp, dom, widget,
                 undoStack, page, loaded, dl, EL_KEY, batch, narration, welcome>>

\* rebuildAllSlides(): S=slidesData.map(...) assigns to the binding that
\* line 1042 declares const. The map is evaluated first (d.type throws on
\* an undefined slot), then the assignment throws a TypeError: S is left
\* as it was and neither the clamp of cur nor R() is reached. The handler
\* that called it ends there.
rebuildAllSlides == UNCHANGED <<S, dom, widget>>

\* moveSlide(dir)
moveSlide(dir) ==
  /\ loaded /\ editOpen
  /\ LET target == cur + dir IN
     IF target < 0 \/ target >= Len(slidesData)
       THEN /\ hist' = Called("moveSlide", dir, TRUE)
            /\ UNCHANGED <<heap, slidesData, cur, undoStack, editOpen, editor, S, dom, widget>>
       ELSE /\ CanEdit
            /\ undoStack' = pushUndo(undoStack, Snapshot)
            /\ slidesData' = SetSlot(SetSlot(slidesData, cur, Slot(slidesData, target)),
                                     target, Slot(slidesData, cur))
            /\ cur' = target
            /\ editOpen' = FALSE /\ editor' = Closed
            /\ rebuildAllSlides
            /\ hist' = Pushed(Called("moveSlide", dir, TRUE))
            /\ UNCHANGED heap
  /\ UNCHANGED <<IMAGES, blobCache, xp, page, loaded, dl, EL_KEY, batch, narration, welcome>>

\* duplicateSlide(): JSON.parse(JSON.stringify(undefined)) throws after
\* the push
duplicateSlide ==
  /\ loaded /\ editOpen
  /\ CanEdit /\ Len(slidesData) < MaxSlides
  /\ undoStack' = pushUndo(undoStack, Snapshot)
  /\ hist' = Pushed(Called("duplicateSlide", 0, TRUE))
  /\ IF Slot(slidesData, cur) = NoObj
       THEN UNCHANGED <<heap, slidesData, cur, editOpen, editor, S, dom, widget>>
       ELSE LET d    == heap[Slot(slidesData, cur)]
                copy == ObjectAssign(d, [t |-> FieldOr(d, "t", <<>>) \o <<COPY_SUFFIX>>])
            IN /\ heap' = Append(heap, copy)
               /\ slidesData' = SpliceIn(slidesData, cur + 1, Len(heap) + 1)
               /\ cur' = cur + 1
               /\ editOpen' = FALSE /\ editor' = Closed
               /\ rebuildAllSlides
  /\ UNCHANGED <<IMAGES, blobCache, xp, page, loaded, dl, EL_KEY, batch, narration, welcome>>

\* the slide addSlideAfter inserts
NewSlide == ContentOf(<<"New Slide">>, <<>>, <<Text(<<"Edit this slide content.">>)>>)

\* addSlideAfter()
addSlideAfter ==
  /\ loaded /\ editOpen
  /\ CanEdit /\ Len(slidesData) < MaxSlides
  /\ undoStack' = pushUndo(undoStack, Snapshot)
  /\ hist' = Pushed(Called("addSlideAfter", 0, TRUE))
  /\ heap' = Append(heap, NewSlide)
  /\ slidesData' = SpliceIn(slidesData, cur + 1, Len(heap) + 1)
  /\ cur' = cur + 1
  /\ editOpen' = FALSE /\ editor' = Closed
  /\ rebuildAllSlides
  /\ UNCHANGED <<IMAGES, blobCache, xp, page, loaded, dl, EL_KEY, batch, narration, welcome>>

\* a guard that lets the last slide go
NoSlideLeft(n) == n < 1

\* slidesData.length<=1
LastSlide(n) == n <= 1

\* deleteSlide(); ok is the answer to confirm()
deleteSlide(ok) ==
  /\ loaded /\ editOpen
  /\ IF LastSlide(Len(slidesData)) \/ ~ok
       THEN /\ hist' = Called("deleteSlide", 0, ok)
            /\ UNCHANGED <<slidesData, cur, undoStack, editOpen, editor, S, dom, widget>>
       ELSE /\ CanEdit
            /\ undoStack' = pushUndo(undoStack, Snapshot)
            /\ slidesData' = SpliceOut(slidesData, cur)
            /\ cur' = IF cur >= Len(slidesData') THEN Len(slidesData') - 1 ELSE cur
            /\ editOpen' = FALSE /\ editor' = Closed
            /\ rebuildAllSlides
            /\ hist' = Pushed(Called("deleteSlide", 0, ok))
  /\ UNCHANGED <<heap, IMAGES, blobCache, xp, page, loaded, dl, EL_KEY, batch, narration, welcome>>

SetMin(A) == CHOOSE a \in A : \A b \in A : a <= b

\* doUndo()
doUndo ==
  /\ loaded
  /\ IF undoStack = <<>>
       THEN /\ hist' = [Quiet(hist) EXCEPT !.call.undid = TRUE, !.call.pre = Pre]
            /\ UNCHANGED <<heap, slidesData, IMAGES, blobCache, S, dom, widget, undoStack>>
            /\ UNCHANGED narration
       ELSE
         LET snap == undoStack[Len(undoStack)]
             n    == Len(slidesData)
             \* slots the first loop assigns to: snap.slidesData[i] is truthy
             hit  == {i \in 1..n : i <= Len(snap.slidesData)
                                    /\ snap.slidesData[i] # NoSlide}
             \* Object.assign(undefined, ...) throws
             bad1 == {i \in hit : slidesData[i] = NoObj}
             end1 == IF bad1 = {} THEN n ELSE SetMin(bad1) - 1
             heap1 == [o \in DOMAIN heap |->
                        IF \E i \in hit : i <= end1 /\ slidesData[i] = o
                          THEN ObjectAssign(heap[o],
                                 snap.slidesData[CHOOSE i \in hit : slidesData[i] = o])
                          ELSE heap[o]]
             \* snap.sArr.forEach: display fields of the entries S still has
             S1 == [i \in 1..Len(S) |->
                      IF i <= Len(snap.sArr)
                        THEN [S[i] EXCEPT !.t = snap.sArr[i].t, !.narr = snap.sArr[i].narr]
                        ELSE S[i]]
             \* the loop that rebuilds the renderers throws on an undefined
             \* slot (d.type) and on a content slide past the end of S
             IsContent(i) == FieldOr(heap1[slidesData[i]], "type", "content") = "content"
             bad2 == {i \in 1..n : \/ slidesData[i] = NoObj
                                   \/ IsContent(i) /\ i > Len(S)}
             end2 == IF bad2 = {} THEN n ELSE SetMin(bad2) - 1
             S2 == [i \in 1..Len(S) |->
                      IF i <= end2 /\ IsContent(i)
                        THEN [S1[i] EXCEPT !.r = "content", !.d = slidesData[i]]
                        ELSE S1[i]]
             h  == [Quiet(hist) EXCEPT
                      !.call = [NoCall EXCEPT !.op = "doUndo",
                                  !.of = IF hist.call.pushed THEN hist.call.op ELSE "none",
                                  !.pre = hist.call.pre,
                                  !.undid = TRUE, !.stack = undoStack]]
         IN /\ undoStack' = SubSeq(undoStack, 1, Len(undoStack) - 1)
            /\ heap' = heap1
            /\ UNCHANGED slidesData
            /\ IF bad1 # {}
                 THEN /\ UNCHANGED <<IMAGES, blobCache, S, dom, widget, narration>>
                      /\ hist' = h
                 ELSE /\ IMAGES' = snap.images
                      /\ S' = S2
                      /\ IF bad2 # {}
                           THEN UNCHANGED <<dom, widget, blobCache, narration>> /\ hist' = h
                           ELSE \* the audio cache is cleared, then R()
                                /\ R(cur, S2, h)
                                /\ LET nc == [Narr EXCEPT !.audioCache = NoCache] IN
                                   SetNarr(IF cur < Len(S2) THEN Rendered(nc) ELSE nc)
  /\ UNCHANGED <<cur, xp, editOpen, editor, page, loaded, dl, EL_KEY, batch, welcome>>

\* ------------------------------------------------------- editing a slide
\* (d.body&&d.body.blocks)||[]
Blocks(d) == IF Has(d, "body") /\ Has(d.body, "blocks") THEN d.body.blocks ELSE <<>>

\* d.body.blocks=bs
SetBlocks(d, bs) == [d EXCEPT !.body = ObjectAssign(@, [blocks |-> bs])]

\* delete b[k]
Without(b, k) == [f \in (DOMAIN b) \ {k} |-> b[f]]

SetMax(A) == CHOOSE a \in A : \A b \in A : a >= b

\* the Media Table as a sequence ends with its last entry
Trimmed(imgs) ==
  LET used == {i \in 1..Len(imgs) : imgs[i] # NoMedia} IN
  SubSeq(imgs, 1, IF used = {} THEN 0 ELSE SetMax(used))

\* IMAGES[k]=uri
SetMedia(imgs, k, uri) ==
  Trimmed([i \in 1..Max(Len(imgs), k + 1) |-> IF i = k + 1 THEN uri ELSE MediaAt(imgs, i - 1)])

\* delete IMAGES[k]
DeleteMedia(imgs, k) == SetMedia(imgs, k, NoMedia)

\* Object.keys(IMAGES).length
KeysLen(imgs) == Cardinality({i \in 1..Len(imgs) : imgs[i] # NoMedia})

\* imgIdx=k;while(IMAGES[imgIdx])imgIdx++
FreeFrom(imgs, k) == SetMin({j \in k..Max(k, Len(imgs)) : MediaAt(imgs, j) = NoMedia})

\* files the user uploads
JPG == "data:image/jpeg;j"

Uploads == {JPG, MP4}

\* texts the user types
Typed == {<<"e">>}

\* the narration gets the video note unless it mentions a video
AddVideoNote(narr) == IF MentionsVideo(narr) THEN narr ELSE narr \o <<VIDEO_NOTE>>

Mutated(h) == [h EXCEPT !.clean = FALSE]

\* the user types v into the title, the narration or the textarea of
\* block bi of the form
typeInto(field, bi, v) ==
  /\ loaded /\ editOpen
  /\ field = "html" =>
       bi < Len(editor.form.els) /\ editor.form.els[bi + 1].kind = "text"
  /\ editor' = CASE field = "title" -> [editor EXCEPT !.form.title = v]
                 [] field = "narr"  -> [editor EXCEPT !.form.narr = v]
                 [] field = "html"  -> [editor EXCEPT !.form.els[bi + 1].val = v]
  /\ hist' = Did("typeInto", bi)
  /\ UNCHANGED <<heap, slidesData, IMAGES, blobCache, S, cur, xp, dom, widget, undoStack,
                 editOpen, page, loaded, dl, EL_KEY, batch, narration, welcome>>

\* saveEdit(): d.type throws on an undefined slot, S[cur].t= on a slide
\* that S does not have, getElementById('eq-q').value on a quiz when the
\* panel was built for a slide of another kind; at the end closeEdit(),
\* and rebuildAllSlides() throws
saveEdit ==
  /\ loaded /\ editOpen /\ CanEdit
  /\ undoStack' = pushUndo(undoStack, Snapshot)
  /\ hist' = Pushed(Called("saveEdit", 0, TRUE))
  /\ LET o == Slot(slidesData, cur)
         f == editor.form
     IN IF o = NoObj
          THEN UNCHANGED <<heap, S, narration, editOpen, editor>>
          ELSE
            LET d   == heap[o]
                tp  == FieldOr(d, "type", "content")
                d1  == ObjectAssign(d, [t |-> f.title, narration |-> f.narr])
                bs  == Blocks(d)
                \* each [data-bi] element writes into the block at its place
                bs1 == [i \in 1..Len(bs) |->
                          IF i <= Len(f.els) /\ f.els[i].kind = "text"
                            THEN ObjectAssign(bs[i], [html |-> f.els[i].val])
                            ELSE bs[i]]
                quizThrows == tp = "quiz" /\ f.tp # "quiz"
                d2  == IF tp = "content" /\ bs # <<>> THEN SetBlocks(d1, bs1)
                       ELSE IF tp = "quiz" /\ ~quizThrows
                         THEN ObjectAssign(d1,
                                [body |-> ObjectAssign(FieldOr(d, "body", [correct |-> 0]),
                                            [options |-> Min(f.n, NumOptions),
                                             correct |-> f.ci])])
                       ELSE d1
            IN IF cur >= Len(S)
                 THEN /\ heap' = [heap EXCEPT ![o] = d1]
                      /\ UNCHANGED <<S, narration, editOpen, editor>>
                 ELSE /\ S' = [S EXCEPT ![cur + 1].t = f.title, ![cur + 1].narr = f.narr]
                      /\ heap' = [heap EXCEPT ![o] = d2]
                      /\ IF quizThrows
                           THEN UNCHANGED <<narration, editOpen, editor>>
                           ELSE /\ SetNarr([Narr EXCEPT !.audioCache = CacheDelete(@, cur)])
                                /\ editOpen' = FALSE /\ editor' = Closed
  /\ UNCHANGED <<slidesData, IMAGES, blobCache, cur, xp, dom, widget, page, loaded, dl,
                 EL_KEY, batch, welcome>>

\* editImgChange(input,imgIdx,bi), with the file read: imgIdx is what the
\* slot of block bi carries. No snapshot is pushed. d.body throws on an
\* undefined slot, S[cur].narr= on a slide that S does not have.
editImgChange(bi, uri) ==
  /\ loaded /\ editOpen
  /\ bi < Len(editor.form.els) /\ editor.form.els[bi + 1].kind = "image"
  /\ LET given  == editor.form.els[bi + 1].idx
         imgIdx == IF given = Null THEN FreeFrom(IMAGES, KeysLen(IMAGES)) ELSE given
         o      == Slot(slidesData, cur)
         vid    == StartsWithVideo(uri)
     IN /\ IMAGES' = SetMedia(IMAGES, imgIdx, uri)
        /\ IF o = NoObj
             THEN UNCHANGED <<heap, S, narration, editor, blobCache>>
             ELSE
               LET d      == heap[o]
                   bs     == Blocks(d)
                   d1     == IF bi < Len(bs)
                               THEN SetBlocks(d, [bs EXCEPT ![bi + 1] =
                                                    ObjectAssign(@, [image_idx |-> imgIdx])])
                               ELSE d
                   narr   == FieldOr(d1, "narration", <<>>)
                   note   == vid /\ ~MentionsVideo(narr)
                   d2     == IF note THEN ObjectAssign(d1, [narration |-> AddVideoNote(narr)])
                                     ELSE d1
                   thrown == note /\ cur >= Len(S)
               IN /\ heap' = [heap EXCEPT ![o] = d2]
                  /\ blobCache' = Cached(Revoked(blobCache, imgIdx), IMAGES', {imgIdx})
                  /\ editor' = [editor EXCEPT !.form.els[bi + 1].idx = imgIdx]
                  /\ S' = IF note /\ ~thrown THEN [S EXCEPT ![cur + 1].narr = d2.narration]
                                              ELSE S
                  /\ IF vid /\ ~thrown
                       THEN SetNarr([Narr EXCEPT !.audioCache = CacheDelete(@, cur)])
                       ELSE UNCHANGED narration
        /\ hist' = Mutated(Called("editImgChange", bi, TRUE))
  /\ UNCHANGED <<slidesData, cur, xp, dom, widget, undoStack, editOpen, page,
                 loaded, dl, EL_KEY, batch, welcome>>

\* editImgDelete(bi,imgIdx) of a slot that shows media
editImgDelete(bi) ==
  /\ loaded /\ editOpen /\ CanEdit
  /\ bi < Len(editor.form.els) /\ editor.form.els[bi + 1].kind = "image"
  /\ editor.form.els[bi + 1].idx # Null
  /\ undoStack' = pushUndo(undoStack, Snapshot)
  /\ hist' = Pushed(Called("editImgDelete", bi, TRUE))
  /\ LET o == Slot(slidesData, cur) IN
     IF o = NoObj
       THEN UNCHANGED <<heap, IMAGES, blobCache, editor>>
       ELSE LET d  == heap[o]
                bs == Blocks(d)
            IN /\ heap' = [heap EXCEPT ![o] =
                             IF bi < Len(bs)
                               THEN SetBlocks(d, [bs EXCEPT ![bi + 1] = Without(@, "image_idx")])
                               ELSE d]
               /\ blobCache' = Revoked(blobCache, editor.form.els[bi + 1].idx)
               /\ IMAGES' = DeleteMedia(IMAGES, editor.form.els[bi + 1].idx)
               /\ editor' = [editor EXCEPT !.form.els[bi + 1].idx = Null]
  /\ UNCHANGED <<slidesData, S, cur, xp, dom, widget, editOpen, page, loaded, dl,
                 EL_KEY, batch, narration, welcome>>

\* editAddImageDone(input), with the file read: pos is the place
\* insertMediaAt gave (Null: editAddImage, at the end). At the end
\* closeEdit() and, 250 ms later, openEdit().
editAddImageDone(pos, uri) ==
  /\ loaded /\ editOpen /\ CanEdit
  /\ editor.form.tp = "content"
  /\ pos = Null \/ pos \in 1..Len(editor.form.els)
  /\ undoStack' = pushUndo(undoStack, Snapshot)
  /\ hist' = Pushed(Called("editAddImageDone", pos, TRUE))
  /\ LET imgIdx == FreeFrom(IMAGES, 0)
         o      == Slot(slidesData, cur)
     IN /\ IMAGES' = SetMedia(IMAGES, imgIdx, uri)
        /\ IF o = NoObj
             THEN UNCHANGED <<heap, S, narration, editOpen, editor, blobCache>>
             ELSE
               LET d      == heap[o]
                   bs     == Blocks(d)
                   at     == IF pos = Null THEN Len(bs) ELSE Min(pos, Len(bs))
                   bs1    == SubSeq(bs, 1, at) \o <<Image(imgIdx)>>
                               \o SubSeq(bs, at + 1, Len(bs))
                   d1     == ObjectAssign(d,
                               [body |-> ObjectAssign(FieldOr(d, "body", [blocks |-> <<>>]),
                                                      [blocks |-> bs1])])
                   narr   == FieldOr(d, "narration", <<>>)
                   vid    == StartsWithVideo(uri)
                   note   == vid /\ ~MentionsVideo(narr)
                   d2     == IF note THEN ObjectAssign(d1, [narration |-> AddVideoNote(narr)])
                                     ELSE d1
                   thrown == note /\ cur >= Len(S)
               IN /\ Len(bs) < MaxBlocks
                  /\ heap' = [heap EXCEPT ![o] = d2]
                  /\ S' = IF note /\ ~thrown THEN [S EXCEPT ![cur + 1].narr = d2.narration]
                                              ELSE S
                  /\ IF vid /\ ~thrown
                       THEN SetNarr([Narr EXCEPT !.audioCache = CacheDelete(@, cur)])
                       ELSE UNCHANGED narration
                  /\ UNCHANGED editOpen
                  /\ editor' = IF thrown THEN editor
                               ELSE [Closed EXCEPT !.form = FormOf(d2)]
                  /\ blobCache' = IF thrown THEN blobCache
                                  ELSE Previewed(blobCache, d2, IMAGES')
  /\ UNCHANGED <<slidesData, cur, xp, dom, widget, page, loaded, dl, EL_KEY, batch, welcome>>

\* what the collaborator may return for a content slide: a title and one
\* text block, or a narration and no body
AITitleAndText == [t |-> <<"T">>, body |-> [blocks |-> <<Text(<<"y">>)>>]]

AINarration == [narration |-> <<"m">>]

AIResults == {AITitleAndText, AINarration}

\* a request made whether or not a credential is stored
Suggesting_NoKeyCheck(e, o) ==
  IF o = NoObj THEN e ELSE [e EXCEPT !.ai = [d |-> o, live |-> TRUE], !.err = FALSE]

\* the editor e after aiSuggest() on the slide object o, up to the await
Suggesting(e, o) ==
  IF ~e.apiKey THEN [e EXCEPT !.err = TRUE]
  ELSE IF o = NoObj THEN e
  ELSE [e EXCEPT !.ai = [d |-> o, live |-> TRUE], !.err = FALSE]

\* aiSuggest() up to its await, with an instruction typed: without a
\* credential the error line shows; JSON.parse(JSON.stringify(undefined))
\* throws on an undefined slot. One request is in flight at a time.
aiSuggest ==
  /\ loaded /\ editOpen /\ editor.ai = NoAI
  /\ editor' = Suggesting(editor, Slot(slidesData, cur))
  /\ hist' = [Called("aiSuggest", 0, editor.apiKey) EXCEPT
                !.call.form = editor.form, !.call.shown = editor'.err,
                !.call.acted = editor'.ai # NoAI]
  /\ UNCHANGED <<heap, slidesData, IMAGES, blobCache, S, cur, xp, dom, widget, undoStack,
                 editOpen, page, loaded, dl, EL_KEY, batch, narration, welcome>>

\* aiSuggest() from its await on: callClaude threw (~ok), or returned
\* updated. The fields are written into the panel that is in the document
\* now (none: getElementById(...).value= throws into the catch); for a
\* content slide d with a body in the answer, pushUndo() and
\* d.body.blocks=newBlocks.
aiSuggestDone(updated, ok) ==
  /\ loaded /\ editor.ai # NoAI
  /\ LET a      == editor.ai
         d      == heap[a.d]
         f      == editor.form
         fills  == Has(updated, "t") \/ Has(updated, "narration")
         f1     == [f EXCEPT !.title = FieldOr(updated, "t", @),
                             !.narr  = FieldOr(updated, "narration", @)]
         blocks == FieldOr(d, "type", "content") = "content" /\ Has(updated, "body")
         newBlocks == FieldOr(updated.body, "blocks", <<>>)
         f2     == [f1 EXCEPT !.els = [i \in 1..Len(@) |->
                      IF @[i].kind = "text" /\ i <= Len(newBlocks)
                        THEN [@[i] EXCEPT !.val = FieldOr(newBlocks[i], "html", <<>>)]
                        ELSE @[i]]]
         h(good) == [Called("aiSuggestDone", 0, good) EXCEPT
                       !.call.form = f, !.call.moved = ~a.live,
                       !.call.shown = ~good /\ a.live]
     IN IF ~ok \/ (fills /\ ~editOpen)
          THEN /\ editor' = [editor EXCEPT !.ai = NoAI, !.err = a.live \/ @]
               /\ hist' = h(FALSE)
               /\ UNCHANGED <<heap, undoStack>>
        ELSE IF ~blocks
          THEN /\ editor' = [editor EXCEPT !.ai = NoAI, !.form = IF editOpen THEN f1 ELSE @]
               /\ hist' = h(TRUE)
               /\ UNCHANGED <<heap, undoStack>>
        ELSE /\ CanEdit
             /\ editor' = [editor EXCEPT !.ai = NoAI, !.form = IF editOpen THEN f2 ELSE @]
             /\ undoStack' = pushUndo(undoStack, Snapshot)
             /\ heap' = [heap EXCEPT ![a.d] = IF Has(d, "body") THEN SetBlocks(d, newBlocks) ELSE d]
             /\ hist' = Pushed(h(TRUE))
  /\ UNCHANGED <<slidesData, IMAGES, blobCache, S, cur, xp, dom, widget, editOpen, page, loaded,
                 dl, EL_KEY, batch, narration, welcome>>

\* regenNarration() up to its await: without a credential an alert;
\* JSON.parse(JSON.stringify(undefined)) throws on an undefined slot. One
\* request is in flight at a time.
regenNarration ==
  /\ loaded /\ editOpen /\ editor.regen = NoAI
  /\ LET o == Slot(slidesData, cur) IN
     editor' = IF ~editor.apiKey \/ o = NoObj THEN editor
               ELSE [editor EXCEPT !.regen = [d |-> o, live |-> TRUE]]
  /\ hist' = [Called("regenNarration", 0, editor.apiKey) EXCEPT
                !.call.form = editor.form, !.call.shown = ~editor.apiKey,
                !.call.acted = editor'.regen # NoAI]
  /\ UNCHANGED <<heap, slidesData, IMAGES, blobCache, S, cur, xp, dom, widget, undoStack,
                 editOpen, page, loaded, dl, EL_KEY, batch, narration, welcome>>

\* regenNarration() from its await on: callClaude threw (~ok), or returned
\* updated. A narration goes into the textarea narrEl that the handler
\* found before the await, which the document may no longer hold; no
\* narration, or a failed call, ends in alert('Failed: ...').
regenNarrationDone(updated, ok) ==
  /\ loaded /\ editor.regen # NoAI
  /\ LET a    == editor.regen
         good == ok /\ FieldOr(updated, "narration", <<>>) # <<>>
     IN /\ editor' = [editor EXCEPT
                        !.regen = NoAI,
                        !.form = IF good /\ a.live
                                   THEN [@ EXCEPT !.narr = updated.narration] ELSE @]
        /\ hist' = [Called("regenNarrationDone", 0, good) EXCEPT
                      !.call.form = editor.form, !.call.moved = ~a.live,
                      !.call.shown = ~good]
  /\ UNCHANGED <<heap, slidesData, IMAGES, blobCache, S, cur, xp, dom, widget, undoStack,
                 editOpen, page, loaded, dl, EL_KEY, batch, narration, welcome>>

\* ------------------------------------------------------------- documents
\* A document is a sequence of tokens: a piece of markup or of script, the
\* key of an object with its colon, or one character of a text.
\* DATA_EDIT with its quotes escaped, as a JSON string holds it
DATA_EDIT_JSON == " data-edit=\\\"1\\\""

APP_OPEN == "<div class=\"app\" id=\"app\">"

APP_CLOSE == "</div>"

Markers == {SDATA, EDATA, SIMGS, EIMGS}

BodyKeys == <<"blocks", "options", "correct", "pairs", "items">>

RECURSIVE Flatten(_)
Flatten(ss) == IF ss = <<>> THEN <<>> ELSE Head(ss) \o Flatten(Tail(ss))

\* html.indexOf(tok), 1-based; 0 when tok does not occur
IndexOf(html, tok) ==
  IF \E i \in 1..Len(html) : html[i] = tok
    THEN SetMin({i \in 1..Len(html) : html[i] = tok})
    ELSE 0

\* JSON.stringify / json.dumps of a string
RECURSIVE JsonEscape(_)
JsonEscape(str) ==
  IF str = <<>> THEN <<>>
  ELSE (CASE Head(str) = Q         -> <<BS, Q>>
          [] Head(str) = BS        -> <<BS, BS>>
          [] Head(str) = DATA_EDIT -> <<DATA_EDIT_JSON>>
          [] OTHER                 -> <<Head(str)>>) \o JsonEscape(Tail(str))

StringifyString(str) == <<Q>> \o JsonEscape(str) \o <<Q>>

\* one block: its keys in the order kind, html, image_idx, alt
StringifyBlock(b) ==
  <<"{", "kind">> \o StringifyString(<<b.kind>>)
  \o (IF Has(b, "html") THEN <<"html">> \o StringifyString(b.html) ELSE <<>>)
  \o (IF Has(b, "image_idx") THEN <<"image_idx", ToString(b.image_idx)>> ELSE <<>>)
  \o (IF Has(b, "alt") THEN <<"alt">> \o StringifyString(b.alt) ELSE <<>>)
  \o <<"}">>

StringifyBlocks(blocks) ==
  <<"[">> \o Flatten([i \in 1..Len(blocks) |-> StringifyBlock(blocks[i])]) \o <<"]">>

StringifyBody(b) ==
  <<"{">> \o Flatten([i \in 1..Len(BodyKeys) |->
                       IF BodyKeys[i] \in DOMAIN b
                         THEN IF BodyKeys[i] = "blocks"
                                THEN <<"blocks">> \o StringifyBlocks(b.blocks)
                                ELSE <<BodyKeys[i], ToString(b[BodyKeys[i]])>>
                         ELSE <<>>]) \o <<"}">>

\* an undefined slot of an array is written as null
StringifySlide(d) ==
  IF d = NoSlide THEN <<"null">>
  ELSE <<"{", "type">> \o StringifyString(<<d.type>>)
       \o <<"t">> \o StringifyString(d.t)
       \o (IF Has(d, "narration")
             THEN <<"narration">> \o StringifyString(d.narration) ELSE <<>>)
       \o <<"body">> \o StringifyBody(d.body) \o <<"}">>

\* JSON.stringify(slidesData) / json.dumps(slides_data)
StringifySlides(slides) ==
  <<"[">> \o Flatten([i \in 1..Len(slides) |-> StringifySlide(slides[i])]) \o <<"]">>

\* JSON.stringify(IMAGES) / json.dumps(images_dict)
StringifyImages(imgs) ==
  <<"{">> \o Flatten([i \in 1..Len(imgs) |->
                       IF imgs[i] = NoMedia THEN <<>>
                       ELSE <<ToString(i - 1)>> \o StringifyString(<<imgs[i]>>)])
  \o <<"}">>

\* '/*SDATA*/const slidesData='+...+';/*EDATA*/'
SlidesSection(slides) ==
  <<SDATA, "const slidesData=">> \o StringifySlides(slides) \o <<";", EDATA>>

\* '/*SIMGS*/const IMAGES='+...+';/*EIMGS*/'
ImagesSection(imgs) ==
  <<SIMGS, "const IMAGES=">> \o StringifyImages(imgs) \o <<";", EIMGS>>

\* the rest of the script; of its text only the strings downloadWithEdits
\* searches for are kept, in the order of the source
Code ==
  <<"function downloadWithEdits(){", SDATA, EDATA, SDATA, EDATA,
    SIMGS, EIMGS, SIMGS, EIMGS, DATA_EDIT, "}", "R();showWelcome();">>

\* html.replace(tok,''): the first occurrence goes
ReplaceFirst(html, tok) ==
  LET i == IndexOf(html, tok) IN
  IF i = 0 THEN html ELSE SubSeq(html, 1, i - 1) \o SubSeq(html, i + 1, Len(html))

\* build_html derives the course title from the first content slide that
\* has a title
CourseTitle(L) ==
  LET c == {i \in 1..Len(L) : L[i].type = "content" /\ FieldOr(L[i], "t", <<>>) # <<>>} IN
  IF c # {} THEN L[SetMin(c)].t
  ELSE IF L # <<>> THEN FieldOr(L[1], "t", <<"Lesson">>) ELSE <<"Lesson">>

\* build_html(slides_data, "", ..., images): the document of a lesson; the
\* quotes of the template literal belong to the tokens around the title
build_html(L, M) ==
  <<"<head>", "<title>">> \o CourseTitle(L) \o <<"</title>", "</head>">>
  \o <<"<body", DATA_EDIT, ">", APP_OPEN, APP_CLOSE, "<script>">>
  \o SlidesSection(L) \o ImagesSection(M)
  \o <<"const COURSE_TITLE=">> \o CourseTitle(L) \o <<";">>
  \o Code \o <<"</script>", "</body>">>

\* what R() wrote into #app, as outerHTML gives it back: the text of the
\* title and of the drawer is not escaped
AppText(d) == d.h1 \o Flatten(d.nav) \o Flatten([i \in 1..Len(d.cn) |-> d.cn[i].of])

\* document.documentElement.outerHTML: the document that was opened, with
\* the content of #app that the script rendered
OuterHTML(pg, d) ==
  LET a == IndexOf(pg, APP_OPEN)
      b == IndexOf(pg, APP_CLOSE)
  IN IF a = 0 \/ b = 0 THEN pg
     ELSE SubSeq(pg, 1, a) \o AppText(d) \o SubSeq(pg, b, Len(pg))

\* html.substring(0,i1)+text+html.substring(i2+9) when both are found
Embed(html, open, close, text) ==
  LET i1 == IndexOf(html, open)
      i2 == IndexOf(html, close)
  IN IF i1 # 0 /\ i2 # 0
       THEN SubSeq(html, 1, i1 - 1) \o text \o SubSeq(html, i2 + 1, Len(html))
       ELSE html

\* the body tag carries data-edit="1"
Editable(doc) ==
  LET b == IndexOf(doc, "<body") IN
  b # 0 /\ b < Len(doc) /\ doc[b + 1] = DATA_EDIT

\* function downloadWithEdits(): the document handed to the browser as a
\* download
downloadWithEdits ==
  /\ loaded
  /\ LET html0 == OuterHTML(page, dom)
         html1 == Embed(html0, SDATA, EDATA, SlidesSection(Values(heap, slidesData)))
         html2 == Embed(html1, SIMGS, EIMGS, ImagesSection(IMAGES))
     IN dl' = ReplaceFirst(html2, DATA_EDIT)
  /\ hist' = Did("downloadWithEdits", 0)
  /\ UNCHANGED <<heap, slidesData, IMAGES, blobCache, S, cur, xp, dom, widget,
                 undoStack, editOpen, editor, page, loaded, EL_KEY, batch, narration, welcome>>

\* ---------------------------------------------------- opening a document
\* What the browser does with the script of a document: the markers are
\* comments between statements and plain characters inside a string.
Failed == [ok |-> FALSE, val |-> <<>>, rest |-> <<>>]

Parsed(v, rest) == [ok |-> TRUE, val |-> v, rest |-> rest]

Expect(toks, tok) == toks # <<>> /\ Head(toks) = tok

RECURSIVE SkipComments(_)
SkipComments(toks) ==
  IF toks # <<>> /\ Head(toks) \in Markers THEN SkipComments(Tail(toks)) ELSE toks

\* the one element of a singleton; in The({e : v \in {x}}) the name v
\* stands for the value of x in e
The(set) == CHOOSE r \in set : TRUE

\* a string literal up to its closing quote; the quote inside an unescaped
\* DATA_EDIT closes the literal and leaves a syntax error behind
RECURSIVE StringChars(_, _)
StringChars(toks, acc) ==
  The({ IF t = <<>> THEN Failed
        ELSE CASE Head(t) = Q              -> Parsed(a, Tail(t))
               [] Head(t) = BS             ->
                    IF Len(t) < 2 THEN Failed
                    ELSE StringChars(Tail(Tail(t)), Append(a, t[2]))
               [] Head(t) = DATA_EDIT_JSON -> StringChars(Tail(t), Append(a, DATA_EDIT))
               [] Head(t) = DATA_EDIT      -> Failed
               [] OTHER                    -> StringChars(Tail(t), Append(a, Head(t)))
        : t \in {toks}, a \in {acc} })

ParseString(toks) == IF Expect(toks, Q) THEN StringChars(Tail(toks), <<>>) ELSE Failed

Digits == 0..9

\* the keys of one block, up to its closing brace
RECURSIVE BlockFields(_, _)
BlockFields(toks, acc) ==
  The({ IF t = <<>> THEN Failed
        ELSE IF Head(t) = "}" THEN Parsed(a, Tail(t))
        ELSE IF Head(t) \in {"kind", "html", "alt"}
          THEN The({ IF ~u.ok THEN Failed
                     ELSE IF Head(t) = "kind"
                       THEN IF Len(u.val) = 1
                              THEN BlockFields(u.rest, a @@ ("kind" :> u.val[1]))
                              ELSE Failed
                       ELSE BlockFields(u.rest, a @@ (Head(t) :> u.val))
                     : u \in {ParseString(Tail(t))} })
        ELSE IF /\ Head(t) = "image_idx"
                /\ Len(t) >= 2
                /\ \E n \in Digits : ToString(n) = t[2]
          THEN BlockFields(Tail(Tail(t)),
                           a @@ ("image_idx" :> CHOOSE n \in Digits : ToString(n) = t[2]))
          ELSE Failed
        : t \in {toks}, a \in {acc} })

RECURSIVE BlockList(_, _)
BlockList(toks, acc) ==
  The({ IF t = <<>> THEN Failed
        ELSE IF Head(t) = "]" THEN Parsed(a, Tail(t))
        ELSE IF Head(t) # "{" THEN Failed
        ELSE The({ IF b.ok THEN BlockList(b.rest, Append(a, b.val)) ELSE Failed
                   : b \in {BlockFields(Tail(t), <<>>)} })
        : t \in {toks}, a \in {acc} })

RECURSIVE BodyFields(_, _)
BodyFields(toks, acc) ==
  The({ IF t = <<>> THEN Failed
        ELSE IF Head(t) = "}" THEN Parsed(a, Tail(t))
        ELSE IF Head(t) = "blocks" /\ Len(t) >= 2 /\ t[2] = "["
          THEN The({ IF bl.ok THEN BodyFields(bl.rest, a @@ ("blocks" :> bl.val))
                              ELSE Failed
                     : bl \in {BlockList(Tail(Tail(t)), <<>>)} })
        ELSE IF /\ Head(t) \in Range(BodyKeys)
                /\ Len(t) >= 2
                /\ \E n \in Digits : ToString(n) = t[2]
          THEN BodyFields(Tail(Tail(t)),
                          a @@ (Head(t) :> CHOOSE n \in Digits : ToString(n) = t[2]))
          ELSE Failed
        : t \in {toks}, a \in {acc} })

ParseBody(toks) == IF Expect(toks, "{") THEN BodyFields(Tail(toks), <<>>) ELSE Failed

\* the object with the keys that were read
SlideOf(type, t, hasN, narr, body) ==
  IF hasN THEN [type |-> type, t |-> t, narration |-> narr, body |-> body]
          ELSE [type |-> type, t |-> t, body |-> body]

ParseSlide(toks) ==
  IF Expect(toks, "null") THEN Parsed(NoSlide, Tail(toks))
  ELSE IF ~(Len(toks) >= 2 /\ toks[1] = "{" /\ toks[2] = "type") THEN Failed
  ELSE The({
    IF ~(ty.ok /\ Len(ty.val) = 1 /\ Expect(ty.rest, "t")) THEN Failed
    ELSE The({
      IF ~(t.ok /\ t.rest # <<>>) THEN Failed
      ELSE The({
        IF ~(nr.ok /\ Expect(nr.rest, "body")) THEN Failed
        ELSE The({
          IF ~(b.ok /\ Expect(b.rest, "}")) THEN Failed
          ELSE Parsed(SlideOf(ty.val[1], t.val, Head(t.rest) = "narration",
                              nr.val, b.val),
                      Tail(b.rest))
          : b \in {ParseBody(Tail(nr.rest))} })
        : nr \in {IF Head(t.rest) = "narration"
                    THEN ParseString(Tail(t.rest))
                    ELSE Parsed(<<>>, t.rest)} })
      : t \in {ParseString(Tail(ty.rest))} })
    : ty \in {ParseString(Tail(Tail(toks)))} })

RECURSIVE SlideList(_, _)
SlideList(toks, acc) ==
  The({ IF t = <<>> THEN Failed
        ELSE IF Head(t) = "]" THEN Parsed(a, Tail(t))
        ELSE The({ IF d.ok THEN SlideList(d.rest, Append(a, d.val)) ELSE Failed
                   : d \in {ParseSlide(t)} })
        : t \in {toks}, a \in {acc} })

ParseSlides(toks) == IF Expect(toks, "[") THEN SlideList(Tail(toks), <<>>) ELSE Failed

\* the entries of the table in the order of their keys; a key that is
\* left out leaves its entry undefined
RECURSIVE ImageList(_, _)
ImageList(toks, acc) ==
  The({ IF t = <<>> THEN Failed
        ELSE IF Head(t) = "}" THEN Parsed(a, Tail(t))
        ELSE IF ~(\E n \in Digits : n >= Len(a) /\ ToString(n) = Head(t)) THEN Failed
        ELSE The({ IF u.ok /\ Len(u.val) = 1
                     THEN ImageList(u.rest,
                            [i \in 1..(k + 1) |->
                               IF i <= Len(a) THEN a[i]
                               ELSE IF i = k + 1 THEN u.val[1] ELSE NoMedia])
                     ELSE Failed
                   : u \in {ParseString(Tail(t))},
                     k \in {CHOOSE n \in Digits : ToString(n) = Head(t)} })
        : t \in {toks}, a \in {acc} })

ParseImages(toks) == IF Expect(toks, "{") THEN ImageList(Tail(toks), <<>>) ELSE Failed

\* the statements after the two declarations: the course title and the
\* code, which may have lost the DATA_EDIT of its replace call
RunsOn(toks) ==
  The({ /\ Expect(c, "const COURSE_TITLE=")
        /\ IndexOf(c, ";") # 0
        /\ SubSeq(c, IndexOf(c, ";") + 1, Len(c)) \in {Code, ReplaceFirst(Code, DATA_EDIT)}
        : c \in {SkipComments(toks)} })

\* the script runs through R() only if it is the two declarations, the
\* course title and the code, and every slide is an object (d.type at the
\* construction of S)
RunScript(script) ==
  The({
    IF ~Expect(a, "const slidesData=") THEN Failed
    ELSE The({
      IF ~(sl.ok /\ Expect(sl.rest, ";")) THEN Failed
      ELSE The({
        IF ~Expect(b, "const IMAGES=") THEN Failed
        ELSE The({
          IF ~(im.ok /\ Expect(im.rest, ";")) THEN Failed
          ELSE IF ~RunsOn(Tail(im.rest)) THEN Failed
          ELSE IF sl.val = <<>> \/ \E i \in 1..Len(sl.val) : sl.val[i] = NoSlide
            THEN Failed
          ELSE Parsed([slides |-> sl.val, images |-> im.val], <<>>)
          : im \in {ParseImages(Tail(b))} })
        : b \in {SkipComments(Tail(sl.rest))} })
      : sl \in {ParseSlides(Tail(a))} })
    : a \in {SkipComments(script)} })

\* the text of the first script element of a document
ScriptOf(doc) ==
  LET i     == IndexOf(doc, "<script>")
      after == SubSeq(doc, i + 1, Len(doc))
      j     == IndexOf(after, "</script>")
  IN IF i = 0 \/ j = 0 THEN <<>> ELSE SubSeq(after, 1, j - 1)

\* the lesson a document yields when a browser opens it
Load(doc) == RunScript(ScriptOf(doc))

\* ------------------------------------------------------- batch conversion
\* The server's POST /batch-convert: the request thread saves the valid
\* files and submits one convert_single per file to a pool of MAX_WORKERS
\* threads; a job is a file with the frames of convert_single that are on
\* its thread's stack. tries, removed, retriedOn and present are
\* bookkeeping: attempts begun, calls of os.remove, the HTTP codes a retry
\* followed, and whether the temporary file existed when each attempt began.
NoResponse == [status |-> 0, results |-> <<>>, total |-> 0, completed |-> 0, failed |-> 0]

NoBatch == [phase |-> "idle", jobs |-> <<>>, response |-> NoResponse]

Queued ==
  [state |-> "queued", attempt |-> 0, temp |-> TRUE, result |-> "none",
   tries |-> 0, removed |-> 0, retriedOn |-> {}, present |-> TRUE]

\* what one run of the try block of convert_single ends with: the lesson
\* written, no text extracted, an HTTPError of the API, another exception
Outcomes ==
  {[kind |-> k, code |-> 0] : k \in {"success", "empty", "exception"}}
    \cup {[kind |-> "HTTPError", code |-> c] : c \in {429, 500, 529}}

\* a retry after any number of attempts
ShouldRetry_Always(code, attempt) == code \in {429, 529}

\* if e.code in (429, 529) and attempt < 2
ShouldRetry(code, attempt) == code \in {429, 529} /\ attempt < MAX_RETRIES

\* if attempt == 0 (and os.path.exists(temp_path))
Cleans(attempt) == attempt = 0

ServerFrame ==
  UNCHANGED <<heap, slidesData, IMAGES, blobCache, S, cur, xp, dom, widget,
              undoStack, editOpen, editor, page, loaded, dl, hist,
              EL_KEY, narration, welcome>>

\* batch_convert() up to the pool: n valid files are saved to temporary
\* paths; without a valid file the request is answered 400 at once
batch_convert(n) ==
  /\ batch.phase = "idle"
  /\ batch' = IF n = 0
                THEN [batch EXCEPT !.phase = "responded", !.response.status = 400]
                ELSE [batch EXCEPT !.phase = "running", !.jobs = [i \in 1..n |-> Queued]]
  /\ ServerFrame

Running(jobs) == {i \in DOMAIN jobs : jobs[i].state \in {"running", "returning"}}

\* a thread of the pool takes the next submitted job and calls
\* convert_single(info), attempt 0
WorkerStarts(i) ==
  /\ batch.phase = "running" /\ i \in DOMAIN batch.jobs
  /\ batch.jobs[i].state = "queued"
  /\ \A j \in 1..(i - 1) : batch.jobs[j].state # "queued"
  /\ Cardinality(Running(batch.jobs)) < MAX_WORKERS
  /\ batch' = [batch EXCEPT !.jobs[i] =
                 [@ EXCEPT !.state = "running", !.tries = 1,
                           !.present = batch.jobs[i].temp]]
  /\ ServerFrame

\* the try block of the innermost convert_single ends with outcome o: it
\* returns a result, or its except clause sleeps and calls
\* convert_single(info, attempt + 1)
convert_single(i, o) ==
  /\ batch.phase = "running" /\ i \in DOMAIN batch.jobs
  /\ batch.jobs[i].state = "running"
  /\ LET j == batch.jobs[i] IN
     batch' = [batch EXCEPT !.jobs[i] =
       IF o.kind = "HTTPError" /\ ShouldRetry(o.code, j.attempt)
         THEN [j EXCEPT !.attempt = @ + 1, !.tries = @ + 1,
                        !.retriedOn = @ \cup {o.code},
                        !.present = @ /\ j.temp]
         ELSE [j EXCEPT !.state = "returning",
                        !.result = IF o.kind = "success" THEN "success" ELSE "error"]]
  /\ ServerFrame

\* the finally clause of the innermost frame that is left, which then
\* returns to its caller
Finally(i) ==
  /\ batch.phase = "running" /\ i \in DOMAIN batch.jobs
  /\ batch.jobs[i].state = "returning"
  /\ LET j  == batch.jobs[i]
         rm == Cleans(j.attempt) /\ j.temp
     IN batch' = [batch EXCEPT !.jobs[i] =
          [j EXCEPT !.temp = IF rm THEN FALSE ELSE @,
                    !.removed = IF rm THEN @ + 1 ELSE @,
                    !.state = IF j.attempt = 0 THEN "done" ELSE @,
                    !.attempt = IF j.attempt = 0 THEN 0 ELSE @ - 1]]
  /\ ServerFrame

\* [r for r in results if r.get("success")]
successful(results) == {i \in DOMAIN results : results[i] = "success"}

\* every future has completed: the results in the order of the files,
\* total, completed and failed
Respond ==
  /\ batch.phase = "running"
  /\ \A i \in DOMAIN batch.jobs : batch.jobs[i].state = "done"
  /\ LET results == [i \in DOMAIN batch.jobs |-> batch.jobs[i].result] IN
     batch' = [batch EXCEPT
       !.phase = "responded",
       !.response = [status    |-> 200,
                     results   |-> results,
                     total     |-> Len(batch.jobs),
                     completed |-> Cardinality(successful(results)),
                     failed    |-> Len(batch.jobs) - Cardinality(successful(results))]]
  /\ ServerFrame

\* ------------------------------------------------------------------- load
\* the state after the script of a document ran on slides L and media M:
\* S is built, cur=0, and R() has rendered the first slide
Opened(L, M) ==
  /\ heap = L
  /\ slidesData = [i \in 1..Len(L) |-> i]
  /\ IMAGES = M
  /\ S = BuildS(L, [i \in 1..Len(L) |-> i])
  /\ cur = 0 /\ xp = 0
  /\ blobCache = (IF S[1].r = "content" THEN Cached(NoBlobs, M, ImageIdxs(L[1])) ELSE NoBlobs)
  /\ dom = [shown |-> 0, h1 |-> S[1].t, nav |-> Titles(S), cn |-> Body(S[1], L, M)]
  /\ widget \in Activate(S[1])
  /\ undoStack = <<>>
  /\ editOpen = FALSE

\* if(EL_KEY) the first slides are fetched at load
FirstFetches(Sv, hp, sd, imgs) ==
  IF EL_KEY
    THEN {Prefetch(i, slideText(Sv, hp, sd, imgs, i))
            : i \in 0..(Min(PreCacheAhead, Len(Sv)) - 1)}
    ELSE {}

\* a lesson of Ls with a Media Table of Ms, built by build_html with or
\* without a narration key (Ks), is opened for the first time
StartWith(Ls, Ms, Ks, As, cap) ==
  /\ EL_KEY \in Ks
  /\ batch = NoBatch
  /\ editor \in {NoEditor(a) : a \in As}
  /\ \E L \in Ls, M \in Ms :
       /\ Opened(L, M)
       /\ page = build_html(L, M)
       /\ hist = [inst |-> 0, awarded |-> [i \in 1..Len(L) |-> 0], edits |-> 0,
                  call |-> NoCall, loads |-> 1, clean |-> TRUE,
                  orig |-> [slides |-> L, images |-> M], speaks |-> 0,
                  cap |-> cap]
       /\ NarrIs(NarrInit(FirstFetches(S, L, slidesData, M)))
  /\ loaded = TRUE
  /\ dl = <<>>
  /\ welcome = TRUE

\* a session of at most MaxEdits pushUndo calls
Start(Ls, Ms, Ks) == StartWith(Ls, Ms, Ks, {FALSE}, MaxEdits)

\* the downloaded document is opened in a browser: a new session on what
\* its script yields, or a page whose script did not run
OpenDownload ==
  /\ dl # <<>> /\ hist.loads < MaxLoads
  /\ page' = dl
  /\ dl' = <<>>
  /\ cur' = 0 /\ xp' = 0
  /\ undoStack' = <<>>
  /\ editOpen' = FALSE /\ editor' = [Closed EXCEPT !.ai = NoAI, !.regen = NoAI]
  /\ LET got == Load(dl)
         h   == [hist EXCEPT !.inst = 0, !.loads = @ + 1,
                             !.call = [NoCall EXCEPT !.op = "OpenDownload"]]
     IN IF got.ok
          THEN /\ loaded' = TRUE
               /\ heap' = got.val.slides
               /\ slidesData' = [i \in 1..Len(got.val.slides) |-> i]
               /\ IMAGES' = got.val.images
               /\ S' = BuildS(heap', slidesData')
               /\ RFrom(NoBlobs, 0, S',
                        [h EXCEPT !.awarded = [i \in 1..Len(got.val.slides) |-> 0]])
               /\ SetNarr(NarrInit(FirstFetches(S', heap', slidesData', IMAGES')))
               /\ welcome' = TRUE
          ELSE /\ loaded' = FALSE
               /\ heap' = <<>> /\ slidesData' = <<>> /\ IMAGES' = <<>> /\ S' = <<>>
               /\ blobCache' = NoBlobs
               /\ dom' = [shown |-> 0, h1 |-> <<>>, nav |-> <<>>, cn |-> <<>>]
               /\ widget' = NoWidget
               /\ hist' = [h EXCEPT !.awarded = <<>>]
               /\ SetNarr(NarrInit({}))
               /\ welcome' = FALSE
  /\ UNCHANGED <<EL_KEY, batch>>

Init ==
  StartWith(PlayLessons \cup EditLessons \cup SerLessons, Media, BOOLEAN, BOOLEAN, MaxEdits)

InitPlay == Start(PlayLessons, Media, {FALSE})

InitEdit == Start(EditLessons, Media, {FALSE})

InitSer == Start(SerLessons, Media, {FALSE})

InitRender == Start(RenderLessons, RenderMedia, {FALSE})

InitNarr == Start(NarrLessons, NarrMedia, BOOLEAN)

\* a lesson of two slides, edited until the undo stack has been full
UndoLessons == { <<Bare(<<"a">>), Bare(<<"b">>)>> }

\* a content slide with a text and an image
MediaLessons == { << ContentOf(<<"a">>, <<"n">>, <<Text(<<"x">>), Image(0)>>) >> }

InitMedia == StartWith(MediaLessons, Media, {FALSE}, BOOLEAN, MaxEdits)

InitUndo == StartWith(UndoLessons, Media, {FALSE}, {FALSE}, MaxPushes)

\* a slide with a video before another slide, and as the only slide;
\* the document carries a narration key
VideoLessons ==
  { << ContentOf(<<"v">>, <<"n">>, <<Image(0)>>), Bare(<<"b">>) >>,
    << ContentOf(<<"v">>, <<"n">>, <<Text(<<"x">>), Image(0)>>) >> }

InitVideo == Start(VideoLessons, NarrMedia, {TRUE})

\* a content slide with an image and a quiz, in a document that carries a
\* narration key: the pre-cache of the load fills the audio cache
CacheLessons ==
  { << ContentOf(<<"a">>, <<"n">>, <<Text(<<"x">>), Image(0)>>), Quiz(<<"q">>, 1) >> }

InitCache == StartWith(CacheLessons, Media, {TRUE}, {FALSE}, MaxEdits)

\* two slides, edited with at most MaxOps snapshots pushed
InitSlides == StartWith(UndoLessons, Media, {FALSE}, {FALSE}, MaxOps)

\* two content slides, the second without narration
AILessons == { << Content(<<"a">>, <<"n">>), Bare(<<"b">>) >> }

InitAI == StartWith(AILessons, Media, {FALSE}, BOOLEAN, MaxEdits)

Navigate == \E i \in -1..(Len(S) + 1) : go(i)

Play ==
  \/ \E i \in 0..(widget.n - 1) : QZ_q(i)
  \/ \E li \in 0..(widget.n - 1) : MATCH_ml(li)
  \/ \E ri \in 0..(widget.n - 1) : MATCH_mr(ri)
  \/ MATCH_flash
  \/ \E pos \in 0..(widget.n - 1) : ORDER_ord(pos)
  \/ ORDER_ordChk

Edit ==
  \/ openEdit
  \/ closeEdit
  \/ \E dir \in {-1, 1} : moveSlide(dir)
  \/ duplicateSlide
  \/ addSlideAfter
  \/ \E ok \in BOOLEAN : deleteSlide(ok)
  \/ doUndo

\* the form of the edit panel: typing, saving, media, AI suggestions
EditForm ==
  \/ \E field \in {"title", "narr", "html"}, bi \in 0..(MaxBlocks - 1), v \in Typed :
       typeInto(field, IF field = "html" THEN bi ELSE 0, v)
  \/ saveEdit
  \/ \E bi \in 0..(MaxBlocks - 1), uri \in Uploads : editImgChange(bi, uri)
  \/ \E bi \in 0..(MaxBlocks - 1) : editImgDelete(bi)
  \/ \E pos \in {Null} \cup 1..MaxBlocks, uri \in Uploads : editAddImageDone(pos, uri)
  \/ aiSuggest
  \/ \E updated \in AIResults, ok \in BOOLEAN : aiSuggestDone(updated, ok)
  \/ regenNarration
  \/ \E updated \in AIResults, ok \in BOOLEAN : regenNarrationDone(updated, ok)

Serialize == downloadWithEdits \/ OpenDownload

Narrate ==
  \/ toggleListen
  \/ startListenMode
  \/ closeWelcome
  \/ \E f \in fetches, ok \in BOOLEAN : FetchDone(f, ok)
  \/ \E a \in audios : AudioEnded(a)
  \/ VideoEnded
  \/ \E t \in timers : TimerFires(t)
  \/ BadgeReset

Next == Navigate \/ Play \/ Edit \/ EditForm \/ Serialize \/ Narrate

\* the whole runtime
Spec == Init /\ [][Next]_vars

\* navigation and the widget engines
NextPlay == Navigate \/ Play

SpecPlay == InitPlay /\ [][NextPlay]_vars

\* navigation and the edit / undo subsystem
NextEdit == Navigate \/ Edit

SpecEdit == InitEdit /\ [][NextEdit]_vars

\* navigation and editing up to a download, then the downloaded document
\* is opened (or downloaded once more)
SerNavigate == dl = <<>> /\ Navigate

SerEdit == dl = <<>> /\ Edit

NextSer == SerNavigate \/ SerEdit \/ Serialize

SpecSer == InitSer /\ [][NextSer]_vars

\* no request of the pre-cache is pending
PreCached == \A f \in fetches : f.speak

\* document.addEventListener('keydown',...) and the arrows of the
\* navigation bar: go(cur+1), go(cur-1); at the first and the last slide
\* the arrow of the bar is disabled, the key is not
keydown == \E i \in {cur - 1, cur + 1} : go(i)

\* the edit panel on a slide with media, and undo: the user types a
\* title, replaces media by an image, adds a video at the end, and the
\* collaborator answers with a title and one text block
NextMedia ==
  \/ openEdit
  \/ closeEdit
  \/ \E v \in Typed : typeInto("title", 0, v)
  \/ saveEdit
  \/ \E bi \in 0..(MaxBlocks - 1) : editImgChange(bi, JPG)
  \/ \E bi \in 0..(MaxBlocks - 1) : editImgDelete(bi)
  \/ editAddImageDone(Null, MP4)
  \/ aiSuggest
  \/ \E ok \in BOOLEAN : aiSuggestDone(AITitleAndText, ok)
  \/ doUndo

SpecMedia == InitMedia /\ [][NextMedia]_vars

\* the AI handlers of the edit panel: the user types a title, asks for a
\* suggestion or a new narration, and closes the panel, changes the slide
\* or moves it before the answer arrives
NextAI ==
  \/ openEdit
  \/ closeEdit
  \/ keydown
  \/ moveSlide(1)
  \/ \E v \in Typed : typeInto("title", 0, v)
  \/ aiSuggest
  \/ \E updated \in AIResults, ok \in BOOLEAN : aiSuggestDone(updated, ok)
  \/ regenNarration
  \/ \E updated \in AIResults, ok \in BOOLEAN : regenNarrationDone(updated, ok)

SpecAI == InitAI /\ [][NextAI]_vars

\* the slide sequence: navigation by the keys, the structural operations
\* of the edit panel, save and undo
NextSlides ==
  \/ keydown
  \/ openEdit
  \/ \E dir \in {-1, 1} : moveSlide(dir)
  \/ duplicateSlide
  \/ addSlideAfter
  \/ deleteSlide(TRUE)
  \/ saveEdit
  \/ doUndo

SpecSlides == InitSlides /\ [][NextSlides]_vars

\* slides moved in the editor, and undo
NextUndo ==
  \/ openEdit
  \/ \E dir \in {-1, 1} : moveSlide(dir)
  \/ doUndo

SpecUndo == InitUndo /\ [][NextUndo]_vars

\* navigation and narration; a request of the pre-cache that fails leaves
\* what a request that never ends leaves, a cache without its slide
NextNarr ==
  \/ keydown
  \/ toggleListen
  \/ startListenMode
  \/ closeWelcome
  \/ \E f \in fetches : \E ok \in (IF f.speak THEN BOOLEAN ELSE {TRUE}) : FetchDone(f, ok)
  \/ \E a \in audios : AudioEnded(a)
  \/ VideoEnded
  \/ \E t \in timers : TimerFires(t)
  \/ BadgeReset

SpecNarr == InitNarr /\ [][NextNarr]_vars

\* the edit panel and undo on a lesson whose narration is cached: the user
\* navigates by the keys, types a title, saves, deletes media, adds a
\* video and a slide, and undoes
NextCache ==
  \/ \E f \in fetches : FetchDone(f, TRUE)
  \/ PreCached /\ keydown
  \/ PreCached /\ openEdit
  \/ \E v \in Typed : typeInto("title", 0, v)
  \/ saveEdit
  \/ \E bi \in 0..(MaxBlocks - 1) : editImgDelete(bi)
  \/ editAddImageDone(Null, MP4)
  \/ addSlideAfter
  \/ doUndo

SpecCache == InitCache /\ [][NextCache]_vars

\* two narrated slides whose audio the load has cached, and the operations
\* of the edit panel on the slide sequence
ShiftLessons == { << Content(<<"a">>, <<"n">>), Content(<<"b">>, <<"m">>) >> }

InitShift == StartWith(ShiftLessons, Media, {TRUE}, {FALSE}, MaxEdits)

NextShift ==
  \/ \E f \in fetches : FetchDone(f, TRUE)
  \/ PreCached /\ keydown
  \/ PreCached /\ openEdit
  \/ \E dir \in {-1, 1} : moveSlide(dir)
  \/ duplicateSlide
  \/ addSlideAfter
  \/ deleteSlide(TRUE)
  \/ \E v \in Typed : typeInto("narr", 0, v)
  \/ saveEdit
  \/ doUndo

SpecShift == InitShift /\ [][NextShift]_vars

\* the narration of a slide is edited, saved and undone while the requests
\* of the pre-cache of the load are in flight
NextStale ==
  \/ \E f \in fetches : FetchDone(f, TRUE)
  \/ openEdit
  \/ closeEdit
  \/ \E v \in Typed : typeInto("narr", 0, v)
  \/ saveEdit
  \/ doUndo

SpecStale == InitShift /\ [][NextStale]_vars

\* a slide with an image is duplicated, and the media of the slides are
\* replaced and deleted in the edit panel
InitCopy == StartWith(MediaLessons, Media, {FALSE}, {FALSE}, MaxEdits)

NextCopy ==
  \/ openEdit
  \/ closeEdit
  \/ duplicateSlide
  \/ \E bi \in 0..(MaxBlocks - 1) : editImgChange(bi, JPG)
  \/ \E bi \in 0..(MaxBlocks - 1) : editImgDelete(bi)
  \/ doUndo

SpecCopy == InitCopy /\ [][NextCopy]_vars

\* the server converts the files of one batch request
InitBatch == StartWith(AILessons, Media, {FALSE}, {FALSE}, MaxEdits)

NextBatch ==
  \/ \E n \in 0..MaxFiles : batch_convert(n)
  \/ \E i \in 1..MaxFiles : WorkerStarts(i)
  \/ \E i \in 1..MaxFiles, o \in Outcomes : convert_single(i, o)
  \/ \E i \in 1..MaxFiles : Finally(i)
  \/ Respond

SpecBatch == InitBatch /\ [][NextBatch]_vars

\* narration of a lesson with a video: the requests of the pre-cache of
\* the load succeed, and the user acts when they have ended
NextVideo ==
  \/ PreCached /\ keydown
  \/ PreCached /\ toggleListen
  \/ PreCached /\ startListenMode
  \/ \E f \in fetches : FetchDone(f, TRUE)
  \/ \E a \in audios : AudioEnded(a)
  \/ VideoEnded
  \/ \E t \in timers : TimerFires(t)

SpecVideo == InitVideo /\ [][NextVideo]_vars

\* rendering of content slides: every lesson of RenderLessons, navigated
SpecRender == InitRender /\ [][Navigate]_vars

\* ================================================================= claims
StructuralOps == {"moveSlide", "duplicateSlide", "addSlideAfter", "deleteSlide"}

SameInstance == hist'.call.op # "go" /\ hist'.call.op # "doUndo"

\* C1: after go(i), for any integer i, cur lies in [0, n-1] and equals i
\* clamped into that range, n >= 1 being the length of the slide list S
\* that go navigates.
C1_GoClamps ==
  hist.call.op = "go" =>
    LET n == Len(S)
        i == hist.call.arg
    IN /\ n >= 1
       /\ cur \in 0..(n - 1)
       /\ cur = (IF i < 0 THEN 0 ELSE IF i > n - 1 THEN n - 1 ELSE i)

\* go(i) with i past the end was called, and so was go(i) with i negative
\* when cur was past the end of S (after addSlideAfter on the last slide)
C1_Witness ==
  /\ hist.call.op = "go"
  /\ hist.call.arg >= Len(S)
  /\ Len(slidesData) > Len(S)

\* C2: in one Quiz instance the first selection answers the quiz and every
\* later selection changes nothing; the instance has added the 20 XP
\* exactly once if the first selection was the correct index, and never
\* otherwise.
C2_QuizOnce ==
  /\ [](widget.kind = "quiz" =>
          hist.inst = (IF widget.sl # Null /\ widget.sl = widget.ci THEN 1 ELSE 0))
  /\ [][hist'.call.op = "QZ_q" =>
          IF widget.sl = Null
            THEN /\ widget'.sl = hist'.call.arg
                 /\ xp' = xp + (IF hist'.call.arg = widget.ci THEN XP_REWARD ELSE 0)
            ELSE widget' = widget /\ xp' = xp]_vars

\* a quiz answered correctly, on which another option was selected afterwards
C2_Witness ==
  /\ widget.kind = "quiz" /\ widget.sl = widget.ci
  /\ hist.call.op = "QZ_q" /\ hist.call.arg # widget.sl
  /\ hist.inst = 1

\* C3: in one Matching instance the state "all pairs matched" is entered
\* once, the 20 XP are added exactly once, at that moment, whatever wrong
\* attempts preceded it, and afterwards no click and no timer changes
\* matched or XP.
C3_MatchingOnce ==
  /\ [](widget.kind = "matching" =>
          hist.inst = (IF AllMatched(widget) THEN 1 ELSE 0))
  /\ [][(widget.kind = "matching" /\ SameInstance) =>
          /\ (~AllMatched(widget) /\ AllMatched(widget')) => xp' = xp + XP_REWARD
          /\ AllMatched(widget) =>
               widget'.matched = widget.matched /\ xp' = xp]_vars

\* all pairs are matched while the timer of a wrong attempt is still
\* pending, and a click arrived after the last match
C3_Witness ==
  /\ widget.kind = "matching" /\ AllMatched(widget) /\ widget.flash
  /\ hist.call.op = "MATCH_ml"
  /\ hist.inst = 1

\* C4: a check on the identity permutation sets done and adds the reward;
\* a check on any other permutation leaves done false and the permutation,
\* the selection and XP unchanged, and the check can be made again.
C4_OrderCheck ==
  /\ [][hist'.call.op = "ORDER_ordChk" =>
          IF widget.current = Identity(widget.n)
            THEN widget'.done /\ xp' = xp + XP_REWARD
            ELSE /\ ~widget'.done
                 /\ widget'.current = widget.current
                 /\ widget'.selIdx = widget.selIdx
                 /\ xp' = xp]_vars
  /\ []((widget.kind = "ordering" /\ widget.current # Identity(widget.n))
          => ~widget.done /\ ENABLED ORDER_ordChk)

\* a check failed on a permutation that is not the identity while a
\* position was selected
C4_Witness ==
  /\ hist.call.op = "ORDER_ordChk"
  /\ widget.current # Identity(widget.n)
  /\ widget.selIdx # Null

\* a check succeeded
C4_WitnessDone == hist.call.op = "ORDER_ordChk" /\ widget.done

\* C5: each interactive slide adds its 20 XP to the session total at most
\* once, also when it is completed again after navigating away and back.
C5_AwardOncePerSlide == \A i \in DOMAIN hist.awarded : hist.awarded[i] <= 1

\* C6: a rejected structural operation (deleteSlide with one slide left,
\* deleteSlide with the confirmation declined, moveSlide past either end)
\* leaves the slide sequence, cur and the undo stack unchanged.
Rejected(c) ==
  \/ /\ c.op = "deleteSlide"
     /\ Len(c.pre.slides) = 1 \/ ~c.ok
  \/ /\ c.op = "moveSlide"
     /\ c.pre.cur + c.arg < 0 \/ c.pre.cur + c.arg > Len(c.pre.slides) - 1

C6_RejectedChangesNothing ==
  Rejected(hist.call) =>
    /\ Values(heap, slidesData) = hist.call.pre.slides
    /\ cur = hist.call.pre.cur
    /\ undoStack = hist.call.pre.undo

\* deleteSlide was called on the one slide that an earlier deleteSlide left
C6_Witness ==
  /\ hist.call.op = "deleteSlide"
  /\ Len(hist.call.pre.slides) = 1
  /\ hist.call.pre.undo # <<>>

\* moveSlide was called past the end of a lesson of several slides
C6_WitnessMove ==
  /\ hist.call.op = "moveSlide" /\ hist.call.arg = 1
  /\ hist.call.pre.cur = Len(hist.call.pre.slides) - 1
  /\ Len(hist.call.pre.slides) > 1

\* C7: a structural operation followed by undo yields the slide sequence,
\* in length and in content per index, that was there before the operation.
C7_UndoRestores ==
  (hist.call.op = "doUndo" /\ hist.call.of \in StructuralOps) =>
    Values(heap, slidesData) = hist.call.pre.slides

\* C8: addSlideAfter() at cur = c on n slides yields n+1 slides, the new
\* default slide at c+1, the others in their order, cur = c+1, and cur
\* designates the new slide in the rendered lesson.
C8_AddSlideAfter ==
  (hist.call.op = "addSlideAfter" /\ hist.call.pre.cur < Len(hist.call.pre.slides)) =>
    LET c   == hist.call.pre.cur
        old == hist.call.pre.slides
        now == Values(heap, slidesData)
    IN /\ Len(now) = Len(old) + 1
       /\ now[c + 2] = NewSlide
       /\ \A i \in 1..Len(old) : now[IF i <= c + 1 THEN i ELSE i + 1] = old[i]
       /\ cur = c + 1
       /\ cur < Len(S)
       /\ At(S, cur).d = At(slidesData, cur)
       /\ dom.shown = cur

Downloaded == hist.call.op = "downloadWithEdits"

\* no text of the lesson holds a string that downloadWithEdits searches for
Searched == Markers \cup {DATA_EDIT}

PlainText(slides) ==
  \A i \in 1..Len(slides) :
    /\ Range(FieldOr(slides[i], "t", <<>>)) \cap Searched = {}
    /\ Range(FieldOr(slides[i], "narration", <<>>)) \cap Searched = {}

\* the lesson the document dl yields is the given one
Yields(slides, imgs) ==
  \E got \in {Load(dl)} :
    got.ok /\ got.val.slides = slides /\ got.val.images = imgs

\* C9: a freshly loaded lesson, serialized with no edits, loaded from the
\* result and serialized again, yields each time slide records and a Media
\* Table equal to the original ones, also when its text contains the
\* boundary-marker strings.
C9_RoundTrip ==
  (Downloaded /\ hist.clean) => Yields(hist.orig.slides, hist.orig.images)

\* the second serialization of a round trip took place and gave the
\* original lesson
C9_Witness ==
  Downloaded /\ hist.clean /\ hist.loads = 2
  /\ Yields(hist.orig.slides, hist.orig.images)

\* the round trip of C9 on the lessons whose text holds none of the
\* searched strings
C9_PlainTextRoundTrip ==
  (Downloaded /\ hist.clean /\ PlainText(hist.orig.slides))
    => Yields(hist.orig.slides, hist.orig.images)

\* C10: after any sequence of edits the document that downloadWithEdits
\* produces embeds exactly the current slidesData and the current Media
\* Table between the SDATA/EDATA and SIMGS/EIMGS markers, keeps the markers,
\* and carries no data-edit on its body.
C10_DownloadEmbeds ==
  Downloaded =>
    \E data \in {SlidesSection(Values(heap, slidesData)) \o ImagesSection(IMAGES)} :
      /\ Len(ScriptOf(dl)) >= Len(data)
      /\ SubSeq(ScriptOf(dl), 1, Len(data)) = data
      /\ Yields(Values(heap, slidesData), IMAGES)
      /\ ~Editable(dl)

\* a document was downloaded after MaxEdits edits, and it embeds the
\* current lesson and is not editable
C10_Witness ==
  /\ Downloaded /\ ~hist.clean /\ hist.edits = MaxEdits
  /\ Yields(Values(heap, slidesData), IMAGES)
  /\ ~Editable(dl)

\* the property of C10 on the lessons whose text never held any of the
\* searched strings
C10_PlainTextDownload ==
  (Downloaded /\ PlainText(hist.orig.slides) /\ PlainText(Values(heap, slidesData)))
    => C10_DownloadEmbeds

\* the blocks of the content slide that #app shows
ShownBlocks == heap[At(S, dom.shown).d].body.blocks

ShowsContent == At(S, dom.shown).r = "content"

Count(seq, x) == Cardinality({i \in DOMAIN seq : seq[i] = x})

Unresolved(b) == b.kind = "image" /\ MediaAt(IMAGES, ImageIdx(b)) = NoMedia

\* the fragment a block is to give
Normally(b) ==
  CASE b.kind = "text"  -> Fragment("div", b.html)
    [] Unresolved(b)    -> Empty
    [] b.kind = "image" ->
         Fragment(IF StartsWithVideo(MediaAt(IMAGES, b.image_idx)) THEN "video" ELSE "img",
                  <<MediaAt(IMAGES, b.image_idx)>>)

\* C16: a content slide is rendered whatever its media references are: an
\* image block whose image_idx is missing or not in the Media Table gives
\* an empty fragment, and every other block gives its own fragment (as many
\* fragments of each sort as there are blocks that give it).
C16_BadMediaRendersEmpty ==
  ShowsContent =>
    /\ Len(dom.cn) = Len(ShownBlocks)
    /\ \A i \in DOMAIN ShownBlocks :
         Count(dom.cn, Normally(ShownBlocks[i]))
           = Cardinality({j \in DOMAIN ShownBlocks :
                            Normally(ShownBlocks[j]) = Normally(ShownBlocks[i])})

\* a slide with two image blocks, one of them unresolved, was navigated
\* to and shows exactly one image fragment and one empty fragment
C16_Witness ==
  /\ ShowsContent /\ hist.call.op = "go"
  /\ Len(ShownBlocks) = 2
  /\ \A i \in 1..2 : ShownBlocks[i].kind = "image"
  /\ Count(dom.cn, Empty) = 1
  /\ Count(dom.cn, Fragment("img", <<PNG>>)) = 1

IsVideoBlock(b) == b.kind = "image" /\ isVideo(IMAGES, ImageIdx(b))

\* the place of block k of bs in a stable partition that puts the video
\* blocks last
Rank(bs, k) ==
  IF IsVideoBlock(bs[k])
    THEN Cardinality({j \in DOMAIN bs : ~IsVideoBlock(bs[j])})
         + Cardinality({j \in 1..k : IsVideoBlock(bs[j])})
    ELSE Cardinality({j \in 1..k : ~IsVideoBlock(bs[j])})

\* C17: the fragments of a content slide are those of its non-video blocks
\* in their source order followed by those of its video blocks in their
\* source order.
C17_VideosLast ==
  ShowsContent =>
    /\ Len(dom.cn) = Len(ShownBlocks)
    /\ \A k \in DOMAIN ShownBlocks :
         dom.cn[Rank(ShownBlocks, k)] = renderBlock(IMAGES, ShownBlocks[k])

\* two videos with a text between them, shown after the text in the order
\* they had
C17_Witness ==
  /\ ShowsContent /\ hist.call.op = "go"
  /\ Len(ShownBlocks) = 3
  /\ IsVideoBlock(ShownBlocks[1]) /\ ~IsVideoBlock(ShownBlocks[2])
  /\ IsVideoBlock(ShownBlocks[3]) /\ ShownBlocks[1] # ShownBlocks[3]
  /\ dom.cn[2].of = <<MediaAt(IMAGES, ShownBlocks[1].image_idx)>>
  /\ dom.cn[3].of = <<MediaAt(IMAGES, ShownBlocks[3].image_idx)>>

\* ------------------------------------------------------------------- undo
\* C18: the undo stack never holds more than UNDO_MAX snapshots; a push
\* onto a full stack drops the oldest snapshot and keeps the others in
\* order below the new one; an undo pops the snapshot pushed last, and
\* on an empty stack it changes nothing.
C18_UndoStackBounded ==
  /\ Len(undoStack) <= UNDO_MAX
  /\ hist.call.pushed =>
       LET was  == hist.call.pre.undo
           kept == IF Len(was) = UNDO_MAX THEN Tail(was) ELSE was
       IN /\ Len(undoStack) = Len(kept) + 1
          /\ SubSeq(undoStack, 1, Len(kept)) = kept
          /\ undoStack[Len(undoStack)].slidesData = hist.call.pre.slides
  /\ hist.call.undid =>
       IF hist.call.op = "doUndo"
         THEN undoStack = SubSeq(hist.call.stack, 1, Len(hist.call.stack) - 1)
         ELSE /\ undoStack = <<>>
              /\ Values(heap, slidesData) = hist.call.pre.slides
              /\ cur = hist.call.pre.cur

\* a snapshot was pushed onto a full stack
C18_Witness ==
  /\ hist.call.pushed
  /\ Len(hist.call.pre.undo) = UNDO_MAX
  /\ Len(undoStack) = UNDO_MAX

\* the operations that change the slide data or the Media Table
MutatingOps ==
  {"saveEdit", "moveSlide", "duplicateSlide", "addSlideAfter", "deleteSlide",
   "editAddImageDone", "editImgChange", "editImgDelete", "aiSuggestDone"}

ChangedModel ==
  Values(heap, slidesData) # hist.call.pre.slides \/ IMAGES # hist.call.pre.images

\* C19: every operation that changed the slide data or the Media Table
\* pushed a snapshot, and the snapshot holds the slide data and the Media
\* Table as they were before the operation.
C19_MutationsPushSnapshot ==
  hist.call.op \in MutatingOps /\ ChangedModel =>
    /\ hist.call.pushed
    /\ undoStack # <<>>
    /\ undoStack[Len(undoStack)].slidesData = hist.call.pre.slides
    /\ undoStack[Len(undoStack)].images = hist.call.pre.images

\* C20: when an AI result has been applied the slide model is as it was
\* (it changes at save only); no block that the slide had is gone.
C20_AIResultKeepsModel ==
  hist.call.op = "aiSuggestDone" =>
    /\ Values(heap, slidesData) = hist.call.pre.slides
    /\ \A i \in 1..Len(slidesData) :
         slidesData[i] # NoObj /\ hist.call.pre.slides[i] # NoSlide =>
           Len(Blocks(heap[slidesData[i]])) >= Len(Blocks(hist.call.pre.slides[i]))

\* ---------------------------------------------------------------- narration
SpeakFetchDone == hist.call.op = "FetchDone" /\ hist.call.of = "speakSlide"

\* C11: a narration fetch that speakSlide started for slide k and that was
\* pending when go() changed the current slide starts no audio and sets no
\* currentAudio when it resolves; a fetch result is acted on only if listen
\* mode is on and the current index is still k.
C11_StaleFetchDiscarded ==
  SpeakFetchDone =>
    /\ hist.call.moved => ~hist.call.acted
    /\ hist.call.acted => listenMode /\ cur = hist.call.arg

\* C12: every go(i) leaves no current audio, speaking false and no
\* auto-advance timer pending when the target slide is rendered, so that no
\* timer of the slide left fires after the navigation.
C12_GoCancels ==
  hist.call.op = "go" => hist.call.render = NoRender /\ timers = {}

\* C13: at most one narration audio plays at any time: every audio that
\* plays is the one held in currentAudio.
C13_OneAudio ==
  /\ Cardinality(audios) <= 1
  /\ \A a \in audios : a.id = currentAudio

InteractiveKinds == {"quiz", "matching", "ordering", "prompt_builder"}

\* C14: the end of a narration schedules an advance only if the current
\* slide is not of an interactive kind and is not the last slide.
C14_AdvanceOnlyNonInteractive ==
  hist.call.op = "AudioEnded" /\ hist.call.sched =>
    /\ heap[slidesData[cur + 1]].type \notin InteractiveKinds
    /\ cur < Len(S) - 1

\* the narration of the current slide could not be fetched: listen mode was
\* turned on in a document without a key, or the fetch a live speakSlide
\* awaited failed
RemoteFailed ==
  \/ hist.call.op = "toggleListen" /\ listenMode /\ ~EL_KEY
  \/ SpeakFetchDone /\ ~hist.call.ok /\ listenMode /\ cur = hist.call.arg

\* C15: when the narration backend has no key or a fetch fails, the slide
\* is spoken all the same (by the local fallback), and no error is shown.
C15_FallbackSpeaks ==
  /\ badge # "Error"
  /\ RemoteFailed => speaking

\* --------------------------------------------------------------------------
AIDone == hist.call.op \in {"aiSuggestDone", "regenNarrationDone"}

\* C21: an AI result that arrives after the panel it was asked from was
\* closed (closed for good, reopened, or closed by a structural edit) is
\* discarded: the fields of the panel now open and the slides of the model
\* are what they were, and no error message shows.
C21_StaleAIResultDiscarded ==
  AIDone /\ hist.call.moved =>
    /\ editor.form = hist.call.form
    /\ Values(heap, slidesData) = hist.call.pre.slides
    /\ ~hist.call.shown

\* a call of aiSuggest or regenNarration without a credential, or the end
\* of one whose request failed while its panel was open
AIRefused ==
  \/ hist.call.op \in {"aiSuggest", "regenNarration"} /\ ~editor.apiKey
  \/ AIDone /\ ~hist.call.ok /\ ~hist.call.moved

\* C22: without a credential aiSuggest and regenNarration make no request
\* and show an error; so does a request that fails. Slides, Media Table,
\* undo stack, the open panel and the values of its fields are unchanged.
C22_AIErrorKeepsEverything ==
  AIRefused =>
    /\ hist.call.shown
    /\ ~hist.call.acted
    /\ Values(heap, slidesData) = hist.call.pre.slides
    /\ IMAGES = hist.call.pre.images
    /\ undoStack = hist.call.pre.undo
    /\ editOpen
    /\ editor.form = hist.call.form

\* both handlers refused for want of a credential, and both requests
\* failed, with a title typed into the form
C22_Witness ==
  /\ AIRefused
  /\ editor.form.title \in Typed
  /\ hist.call.op \in {"regenNarration", "regenNarrationDone"}

C22_WitnessSuggest ==
  /\ AIRefused
  /\ editor.form.title \in Typed
  /\ hist.call.op \in {"aiSuggest", "aiSuggestDone"}
\* --------------------------------------------------------------------------
\* the lowest index that is free in the Media Table imgs
LowestFree(imgs) == SetMin({j \in 0..Len(imgs) : MediaAt(imgs, j) = NoMedia})

\* the upload is stored under k and no entry that was in use is overwritten
StoredAt(k) ==
  /\ MediaAt(IMAGES, k) \in Uploads
  /\ \A j \in 0..(Len(hist.call.pre.images) - 1) :
       j # k /\ MediaAt(hist.call.pre.images, j) # NoMedia
         => MediaAt(IMAGES, j) = MediaAt(hist.call.pre.images, j)

\* the blocks the current slide had when the handler was called
BlocksBefore == Blocks(hist.call.pre.slides[cur + 1])

\* the block of the current slide that editImgChange or editAddImageDone
\* gave media to
Target ==
  IF hist.call.op = "editImgChange" THEN hist.call.arg + 1
  ELSE IF hist.call.arg = Null THEN Len(BlocksBefore) + 1
  ELSE Min(hist.call.arg, Len(BlocksBefore)) + 1

\* C23: media chosen for a block that has an index is stored under that
\* index; media for a block without index (a new block, a block whose
\* media was deleted) is stored under the lowest free index of the Media
\* Table; no entry in use is overwritten.
C23_MediaIndexAllocation ==
  hist.call.op \in {"editImgChange", "editAddImageDone"} =>
    LET now == Blocks(heap[slidesData[cur + 1]])[Target]
        had == IF hist.call.op = "editImgChange"
                 THEN ImageIdx(BlocksBefore[Target]) ELSE Null
    IN /\ ImageIdx(now) = (IF had # Null THEN had ELSE LowestFree(hist.call.pre.images))
       /\ had # Null \/ StoredAt(ImageIdx(now))
       /\ had # Null => MediaAt(IMAGES, had) \in Uploads
\* --------------------------------------------------------------------------
\* this step is go(cur-1) on the first slide or go(cur+1) on the last
AtBoundary ==
  /\ hist'.call.op = "go"
  /\ \/ cur = 0 /\ hist'.call.arg = cur - 1
     \/ cur = Len(S) - 1 /\ hist'.call.arg = cur + 1

\* C24: previous() on the first slide and next() on the last are no-ops:
\* the current index, the state of the mounted widget and the narration in
\* progress stay as they are.
C24_BoundaryNoOp ==
  [][AtBoundary => cur' = cur /\ widget' = widget /\ narration' = narration]_vars
\* --------------------------------------------------------------------------
\* the slides slidesData holds: its slots that are not undefined
SlidesHeld == {i \in 1..Len(slidesData) : slidesData[i] # NoObj}

\* C25: a lesson opened with at least one slide holds at least one slide
\* after any sequence of moveSlide, duplicateSlide, addSlideAfter,
\* deleteSlide, saveEdit and undo.
C25_NeverEmpty == SlidesHeld # {}
\* --------------------------------------------------------------------------
\* this step is the end of the narration of the current slide, in listen
\* mode, and the slide shows a video
NarrationEndsOnVideo ==
  /\ hist'.call.op = "AudioEnded"
  /\ listenMode /\ cur = hist'.call.arg
  /\ HasVideo(dom)

\* this step sets an auto-advance timer
Schedules == timers' \ timers # {}

\* C26: when the narration of a slide with a video ends in listen mode, no
\* advance is scheduled; the video is started, and its end event schedules
\* the advance, and only with listen mode on, on the same slide, which is
\* not the last.
C26_VideoThenAdvance ==
  [][/\ NarrationEndsOnVideo => ~Schedules /\ videoOnended' = cur
     /\ Schedules /\ HasVideo(dom) =>
          /\ hist'.call.op = "VideoEnded"
          /\ listenMode /\ cur = videoOnended /\ cur < Len(S) - 1]_vars

\* the video of a slide has ended and its handler scheduled the advance
C26_Witness ==
  /\ hist.call.op = "VideoEnded" /\ hist.call.sched
  /\ autoTimer \in timers /\ HasVideo(dom)

\* the narration of a slide with a video has ended and the video plays
C26_WitnessStarted ==
  /\ hist.call.op = "AudioEnded" /\ videoOnended = cur /\ timers = {}
\* --------------------------------------------------------------------------
\* C27: saveEdit on the current slide c removes the audio cache entry of c
\* and no other, and the title and the narration of slide c are then the
\* values of the form (in S and in slidesData).
C27_SaveInvalidatesOwnCache ==
  [][hist'.call.op = "saveEdit" =>
       /\ audioCache' = CacheDelete(audioCache, cur)
       /\ cur < Len(S') /\ Slot(slidesData, cur) # NoObj
       /\ S'[cur + 1].t = editor.form.title
       /\ S'[cur + 1].narr = editor.form.narr
       /\ FieldOr(heap'[Slot(slidesData, cur)], "t", <<>>) = editor.form.title
       /\ FieldOr(heap'[Slot(slidesData, cur)], "narration", <<>>) = editor.form.narr]_vars

\* C28: after undo has popped a snapshot the audio cache is empty and the
\* Media Table is the snapshot's.
C28_UndoClearsCache ==
  hist.call.op = "doUndo" =>
    /\ audioCache = NoCache
    /\ IMAGES = hist.call.stack[Len(hist.call.stack)].images
\* --------------------------------------------------------------------------
\* this step is editImgDelete from the slot of block bi of the panel,
\* which shows the media k
DeletesMediaOf(bi, k) ==
  /\ hist'.call.op = "editImgDelete" /\ hist'.call.arg = bi
  /\ k # Null
  /\ editor.form.els[bi + 1].idx = k

\* the blocks (slide i, place j) that refer to the media k
RefersTo(hp, sd, k) ==
  {<<i, j>> \in (1..Len(sd)) \X (1..MaxBlocks) :
     /\ sd[i] # NoObj /\ j <= Len(Blocks(hp[sd[i]]))
     /\ ImageIdx(Blocks(hp[sd[i]])[j]) = k}

\* C29: deleting the media k of a block pushes a snapshot of the state
\* before, removes entry k of the Media Table, the blob URL cached for k
\* and the image_idx of the block that referred to k: k is free, and the
\* block renders as empty.
C29_DeleteReleasesMedia ==
  [][\A bi \in 0..(MaxBlocks - 1), k \in 0..MaxBlocks :
       DeletesMediaOf(bi, k) =>
         /\ undoStack' # <<>>
         /\ undoStack'[Len(undoStack')].slidesData = Values(heap, slidesData)
         /\ undoStack'[Len(undoStack')].images = IMAGES
         /\ MediaAt(IMAGES', k) = NoMedia
         /\ LowestFree(IMAGES') <= k
         /\ k \notin DOMAIN blobCache'
         /\ \A r \in RefersTo(heap, slidesData, k) :
              LET now == Blocks(heap'[slidesData[r[1]]])[r[2]] IN
              /\ ImageIdx(now) = Null
              /\ renderBlock(Served(IMAGES', blobCache'), now) = Empty]_vars

\* a moveSlide(dir) that passed its range check
ValidMove == hist'.call.op = "moveSlide" /\ hist'.call.pushed

\* the exchange in slidesData and the new currentIndex
MovedInData ==
  LET c == cur
      t == cur + hist'.call.arg IN
  /\ Len(slidesData') = Len(slidesData)
  /\ Slot(slidesData', t) = Slot(slidesData, c)
  /\ Slot(slidesData', c) = Slot(slidesData, t)
  /\ \A i \in 0..(Len(slidesData) - 1) :
       i \notin {c, t} => Slot(slidesData', i) = Slot(slidesData, i)
  /\ cur' = t

\* the entry of the rendered list at currentIndex is the one of the
\* moved slide
MovedInRendered ==
  /\ cur' < Len(S')
  /\ S'[cur' + 1] = SEntry(heap'[Slot(slidesData', cur')], Slot(slidesData', cur'))

\* C30: a valid moveSlide(d) exchanges the slides at c and c+d, leaves
\* every other position as it was, and sets currentIndex to c+d, where it
\* designates the moved slide in slidesData and in the rendered list S
C30_MoveSlide == [][ValidMove => MovedInData /\ MovedInRendered]_vars

\* the part of C30 about slidesData and currentIndex alone
C30_MoveSlideData == [][ValidMove => MovedInData]_vars

\* a click on the right item ri of the mounted matching widget
RightClick(ri) == hist'.call.op = "MATCH_mr" /\ hist'.call.arg = ri

\* a click on the left item li of the mounted matching widget
LeftClick(li) == hist'.call.op = "MATCH_ml" /\ hist'.call.arg = li

\* the right item ri is in the matched mapping
MatchedRight(ri) == ri \in Range(widget.matched)

\* C31: a wrong right click (a left item is selected, the clicked right
\* item is not matched and is not its pair) leaves the matched mapping as
\* it was and clears the left selection; a right click with no left item
\* selected and a click on a matched item, left or right, change nothing
C31_WrongClickKeepsMatched ==
  [][/\ \A ri \in 0..(widget.n - 1) :
          RightClick(ri) =>
            IF widget.selL = Null \/ MatchedRight(ri)
              THEN widget' = widget /\ xp' = xp
              ELSE widget.selL # At(widget.shuffled, ri) =>
                     /\ widget'.matched = widget.matched
                     /\ widget'.selL = Null
                     /\ xp' = xp
     /\ \A li \in 0..(widget.n - 1) :
          LeftClick(li) /\ At(widget.matched, li) # Null =>
            widget' = widget /\ xp' = xp]_vars

\* a wrong right click was made in a widget that has a match
C31_Witness ==
  /\ hist.call.op = "MATCH_mr"
  /\ widget.kind = "matching" /\ widget.flash
  /\ widget.wrongPair # <<>> /\ widget.wrongPair[2] = hist.call.arg
  /\ widget.selL = Null
  /\ \E i \in 1..widget.n : widget.matched[i] # Null

\* a click on position pos of the mounted ordering widget
PositionClick(pos) == hist'.call.op = "ORDER_ord" /\ hist'.call.arg = pos

\* the working permutation of a mounted ordering widget is a permutation
\* of 0..n-1
IsPermutation(w) == w.kind = "ordering" => w.current \in Perms(w.n)

\* C32: in an ordering widget that is not done, a click with no position
\* selected selects the clicked position and leaves the working permutation
\* as it was; a click with position p selected exchanges the entries at p
\* and at the clicked position and clears the selection; the working
\* permutation is always a permutation of 0..n-1
C32_OrderingClicks ==
  /\ IsPermutation(widget)
  /\ [][/\ IsPermutation(widget')
        /\ \A pos \in 0..(widget.n - 1) :
             PositionClick(pos) /\ ~widget.done =>
               IF widget.selIdx = Null
                 THEN /\ widget'.selIdx = pos
                      /\ widget'.current = widget.current
                 ELSE LET p == widget.selIdx IN
                      /\ widget'.selIdx = Null
                      /\ At(widget'.current, p) = At(widget.current, pos)
                      /\ At(widget'.current, pos) = At(widget.current, p)
                      /\ \A k \in 0..(widget.n - 1) :
                           k \notin {p, pos} =>
                             At(widget'.current, k) = At(widget.current, k)]_vars

\* a second click has exchanged two different entries: the selection is
\* clear and the permutation is not the one the widget would be done with
C32_Witness ==
  /\ hist.call.op = "ORDER_ord"
  /\ widget.kind = "ordering" /\ ~widget.done
  /\ widget.selIdx = Null
  /\ At(widget.current, hist.call.arg) # hist.call.arg

FlashEnds == hist'.call.op = "MATCH_flash"

\* C34: while the timer of a wrong pair is pending the click handlers act
\* as ever: a left item can be selected and a right click on its pair
\* records the match; the timer, when it fires, clears the wrong-pair
\* marker and leaves the matched mapping, the left selection and XP as
\* they are, whatever was clicked in between
C34_FlashWindow ==
  [][/\ FlashEnds =>
          /\ widget'.wrongPair = <<>>
          /\ widget'.matched = widget.matched
          /\ widget'.selL = widget.selL
          /\ widget'.shuffled = widget.shuffled
          /\ xp' = xp
     /\ \A li \in 0..(widget.n - 1) :
          widget.flash /\ LeftClick(li) /\ At(widget.matched, li) = Null =>
            widget'.selL = li
     /\ \A ri \in 0..(widget.n - 1) :
          /\ widget.flash /\ RightClick(ri)
          /\ widget.selL # Null /\ ~MatchedRight(ri)
          /\ widget.selL = At(widget.shuffled, ri)
          => /\ At(widget'.matched, widget.selL) = ri
             /\ \A k \in 0..(widget.n - 1) :
                  k # widget.selL => At(widget'.matched, k) = At(widget.matched, k)]_vars

\* the timer fired after the match was completed inside its window
C34_Witness ==
  /\ hist.call.op = "MATCH_flash"
  /\ widget.kind = "matching" /\ AllMatched(widget)
  /\ xp = XP_REWARD

\* the timer fired while a left item was selected
C34_WitnessSelected ==
  /\ hist.call.op = "MATCH_flash"
  /\ widget.kind = "matching" /\ widget.selL # Null

\* the timer fired after a later wrong attempt, whose own timer is pending
C34_WitnessLater ==
  /\ hist.call.op = "MATCH_flash"
  /\ widget.kind = "matching" /\ widget.flash
  /\ \E i \in 1..widget.n : widget.matched[i] # Null

\* S has an entry for every slide of slidesData and no other
SameLength == Len(S) = Len(slidesData)

\* every entry of S is the one rebuildAllSlides would make of the slide
\* at its index
ShowsData ==
  \A i \in 1..Min(Len(S), Len(slidesData)) :
    /\ slidesData[i] # NoObj
    /\ S[i].d = slidesData[i]
    /\ S[i].t = FieldOr(heap[slidesData[i]], "t", <<>>)
    /\ S[i].narr = FieldOr(heap[slidesData[i]], "narration", <<>>)

\* currentIndex designates an entry of S
CurInS == 0 <= cur /\ cur < Len(S)

\* C35: in every reachable state the rendered slide list S has the length
\* of slidesData, S[i] shows slidesData[i] for every i, and currentIndex
\* lies in 0..Len(S)-1
C35_RenderedListInSync == loaded => SameLength /\ ShowsData /\ CurInS

\* the operations of the edit panel that end in rebuildAllSlides
RebuildingOps == {"saveEdit", "moveSlide", "duplicateSlide", "addSlideAfter", "deleteSlide"}

\* some entry of S renders the slide object o, and activates its widget
\* if o is a quiz, a matching or an ordering slide
Navigable(o) ==
  \E j \in 1..Len(S) :
    /\ S[j].d = o
    /\ S[j].tp = FieldOr(heap[o], "type", "content")
    /\ S[j].r = (IF S[j].tp \in {"quiz", "matching", "ordering"} THEN "mount" ELSE "content")
    /\ \A w \in Activate(S[j]) :
         w.kind = (IF S[j].r = "mount" THEN S[j].tp ELSE "none")

\* C36: after saveEdit, moveSlide, duplicateSlide, addSlideAfter or
\* deleteSlide every slide of the lesson has an entry in S that renders it,
\* and mounts its widget if it is an interactive slide
C36_EverySlideNavigable ==
  hist.call.op \in RebuildingOps /\ hist.call.pushed =>
    \A i \in 1..Len(slidesData) :
      slidesData[i] # NoObj => Navigable(slidesData[i])

\* the text elFetch would be given for the slide that is at index idx of
\* slidesData
NarrationAt(idx) ==
  slideText(BuildS(heap, slidesData), heap, slidesData, IMAGES, idx)

\* the cached audio of index idx was made from the narration of the slide
\* at idx
FromSlideAt(idx) ==
  /\ idx < Len(slidesData) /\ Slot(slidesData, idx) # NoObj
  /\ audioCache[idx] = NarrationAt(idx)

\* C37: with no request in flight, every entry of the audio cache was
\* synthesized from the narration of the slide that is now at its index
C37_CacheFollowsSlides ==
  loaded /\ fetches = {} => \A idx \in DOMAIN audioCache : FromSlideAt(idx)

\* C37 for the entries of the indices that an entry of S exists for,
\* against the narration S holds for the index
CacheFollowsRendered ==
  loaded /\ fetches = {} =>
    \A idx \in DOMAIN audioCache :
      idx < Len(S) /\ audioCache[idx] = slideText(S, heap, slidesData, IMAGES, idx)

\* C38: a request for the narration of index idx that ends after saveEdit
\* or undo has invalidated the cache entry of idx does not store audio of
\* the old narration: the entry it leaves is the audio of the narration
\* the slide at idx has now
C38_NoStaleAudioStored ==
  hist.call.op = "FetchDone" /\ hist.call.ok /\ hist.call.arg \in DOMAIN audioCache =>
    FromSlideAt(hist.call.arg)

\* the media that block j of the slide at position i resolved to before
\* this step and resolves to after it
ResolvedBefore(i, j) == MediaAt(IMAGES, ImageIdx(Blocks(heap[slidesData[i]])[j]))

ResolvedAfter(i, j) == MediaAt(IMAGES', ImageIdx(Blocks(heap'[slidesData[i]])[j]))

\* the image blocks of the lesson other than block bi of the current slide
OtherImageBlocks(bi) ==
  {ij \in (1..Len(slidesData)) \X (1..MaxBlocks) :
     /\ slidesData[ij[1]] # NoObj
     /\ ij[2] <= Len(Blocks(heap[slidesData[ij[1]]]))
     /\ FieldOr(Blocks(heap[slidesData[ij[1]]])[ij[2]], "kind", "") = "image"
     /\ ij # <<cur + 1, bi + 1>>}

\* C39: replacing or deleting the media of one image block leaves every
\* other image block of the lesson resolving to the media it resolved to,
\* the blocks of the slide that the edited slide is a copy of included
C39_OtherBlocksKeepMedia ==
  [][\A bi \in 0..(MaxBlocks - 1) :
       hist'.call.op \in {"editImgChange", "editImgDelete"} /\ hist'.call.arg = bi =>
         \A ij \in OtherImageBlocks(bi) :
           ResolvedAfter(ij[1], ij[2]) = ResolvedBefore(ij[1], ij[2])]_vars

\* a job ran within its attempts, retried after 429 and 529 only, found
\* its temporary file at every attempt, and removes it once, when its
\* last attempt has ended
WithinAttempts(j) ==
  /\ j.tries <= 3 /\ j.tries <= 1 + MAX_RETRIES
  /\ j.retriedOn \subseteq {429, 529}
  /\ j.tries > 1 => j.retriedOn # {}
  /\ j.present
  /\ j.state \in {"queued", "running"} => j.temp /\ j.removed = 0
  /\ j.removed <= 1
  /\ j.state = "done" => ~j.temp /\ j.removed = 1

\* the response has one result per file, in the order of the files, and
\* its counts add up
OneResultPerFile ==
  batch.phase = "responded" /\ batch.response.status = 200 =>
    LET r == batch.response IN
    /\ Len(r.results) = Len(batch.jobs) /\ r.total = Len(batch.jobs)
    /\ \A i \in DOMAIN batch.jobs :
         r.results[i] = batch.jobs[i].result /\ r.results[i] \in {"success", "error"}
    /\ r.completed = Count(r.results, "success")
    /\ r.failed = Count(r.results, "error")
    /\ r.completed + r.failed = r.total

\* C40: in a batch conversion every valid file is attempted at most 3
\* times, a retry follows an HTTP 429 or 529 only and there are at most 2;
\* the temporary file exists when each attempt begins and is removed once,
\* after the last attempt; the response holds one result per file, and
\* completed + failed = total
C40_BatchAttempts ==
  /\ \A i \in DOMAIN batch.jobs : WithinAttempts(batch.jobs[i])
  /\ OneResultPerFile

\* the response of a batch in which one file failed after three attempts
\* and another succeeded
C40_Witness ==
  /\ batch.phase = "responded" /\ batch.response.status = 200
  /\ \E i, k \in DOMAIN batch.jobs :
       /\ batch.jobs[i].tries = 3 /\ batch.jobs[i].result = "error"
       /\ batch.jobs[i].removed = 1
       /\ batch.jobs[k].result = "success"
  /\ batch.response.completed = 1 /\ batch.response.failed = 1

====
